---- MODULE Spec2Model ----
(***************************************************************************)
(* Model of the distributed batch engine of the sewage monitoring system.  *)
(*                                                                         *)
(*   MasterNode            src/src/mpi/master_node.py                      *)
(*   WorkerNode            src/codigo/src/mpi/worker_node.py               *)
(*   SistemaMonitoramento  src/src/sistema_monitoramento.py                *)
(*                                                                         *)
(* Numeric sensor values are fixed-point integers in tenths of a unit      *)
(* (ph_level 8.5 is 85), so that the thresholds of the source are exact.   *)
(***************************************************************************)
EXTENDS Integers, Sequences, FiniteSets, TLC

\* ---------------------------------------------------------------- bounds
MaxWorkers == 2
MaxBatch == 2
MaxReadings == 3
MaxCycles == 2
MaxFaults == 1
MaxCalls == 3
MaxResults == 3
MaxLeituras == 2

\* ------------------------------------------------- constants of the source
\* validate_data, worker_node.py:67-70 (tenths)
TemperatureLow == -500
TemperatureHigh == 1000
PhLow == 0
PhHigh == 140
\* detect_anomalies defaults, worker_node.py:91-137 (tenths)
FlowRateMax == 1000
PressureMax == 50
TemperatureMax == 350
PhMin == 60
PhMax == 85
TurbidityMax == 500
\* config.py ANOMALIA_CONFIG; the thresholds 2.5 and 3.5 in tenths
min_historico == 10
max_historico == 50
threshold_desvio == 25
threshold_critico == 35

Min(a, b) == IF a < b THEN a ELSE b

RECURSIVE Flatten(_)
\* Concatenation of a sequence of sequences, in order.
Flatten(ss) == IF ss = <<>> THEN <<>> ELSE Head(ss) \o Flatten(Tail(ss))

RECURSIVE SumSeq(_)
SumSeq(s) == IF s = <<>> THEN 0 ELSE Head(s) + SumSeq(Tail(s))

\* ------------------------------------------------------------------ cells
\* A cell of a CSV row as pandas hands it over: a float (finite, NaN for an
\* empty numeric cell, or infinite), a text that is not a number, or None.
Fin(x) == [k |-> "fin", v |-> x]
NaN == [k |-> "nan"]
PosInf == [k |-> "inf"]
NegInf == [k |-> "-inf"]
Text == [k |-> "str"]
None == [k |-> "none"]

\* float(cell) raises ValueError on a text that is not a number and
\* TypeError on None; on a float it returns the float itself.
FloatRaises(cell) == cell.k \in {"str", "none"}

\* a < c and a > c for a float a and a finite number c: every comparison
\* with NaN is false.
Lt(a, c) == IF a.k = "fin" THEN a.v < c ELSE a.k = "-inf"
Gt(a, c) == IF a.k = "fin" THEN a.v > c ELSE a.k = "inf"

\* ---------------------------------------------------------------- readings
\* Rows of the CSV as DataFrame.to_dict('records') yields them.
RGood == [sensor_id |-> "S1", flow_rate |-> Fin(500), pressure |-> Fin(20),
          temperature |-> Fin(200), ph_level |-> Fin(70), turbidity |-> Fin(100)]
RBadPh == [sensor_id |-> "S2", flow_rate |-> Fin(500), pressure |-> Fin(20),
           temperature |-> Fin(200), ph_level |-> Fin(200), turbidity |-> Fin(100)]
Samples == {RGood, RBadPh}

RECURSIVE SeqsUpTo(_, _)
\* All sequences over S of length at most n.
SeqsUpTo(S, n) ==
    IF n = 0 THEN {<<>>}
    ELSE LET P == SeqsUpTo(S, n - 1)
         IN  P \cup {Append(s, x) : s \in {t \in P : Len(t) = n - 1}, x \in S}

DataChoices == SeqsUpTo(Samples, MaxReadings)

\* ------------------------------------------------------------- WorkerNode
RequiredFields == {"sensor_id", "flow_rate", "pressure", "temperature", "ph_level"}
NumericFields == {"flow_rate", "pressure", "temperature", "ph_level"}

\* worker_node.py:61-63: the cells converted with float() when the record
\* has them (record.get with the default 0.0 otherwise).
OptionalFields == {"turbidity", "location_x", "location_y"}

\* worker_node.py:57-63: one of the float() conversions of the record raises
\* ValueError or TypeError.
ConversionRaises(record) ==
    \/ \E f \in NumericFields : FloatRaises(record[f])
    \/ \E f \in OptionalFields \cap DOMAIN record : FloatRaises(record[f])

\* worker_node.py:67-70: a converted value is out of range.
OutOfRange(record) ==
    \/ Lt(record.flow_rate, 0)
    \/ Lt(record.pressure, 0)
    \/ Lt(record.temperature, TemperatureLow)
    \/ Gt(record.temperature, TemperatureHigh)
    \/ Lt(record.ph_level, PhLow)
    \/ Gt(record.ph_level, PhHigh)

\* worker_node.py:49-79: the record has every required field, converts
\* without an exception and its values are not out of range.
RecordOk(record) ==
    IF ~ (RequiredFields \subseteq DOMAIN record) THEN FALSE
    ELSE IF ConversionRaises(record) THEN FALSE
    ELSE ~ OutOfRange(record)

\* worker_node.py:54-64: the validated copy, turbidity defaulting to 0.0.
ValidatedRecord(record) ==
    [sensor_id |-> record.sensor_id, flow_rate |-> record.flow_rate,
     pressure |-> record.pressure, temperature |-> record.temperature,
     ph_level |-> record.ph_level,
     turbidity |-> IF "turbidity" \in DOMAIN record THEN record.turbidity ELSE Fin(0)]

RECURSIVE validate_data(_)
validate_data(data) ==
    IF data = <<>> THEN <<>>
    ELSE IF RecordOk(Head(data))
         THEN <<ValidatedRecord(Head(data))>> \o validate_data(Tail(data))
         ELSE validate_data(Tail(data))

Alert(type, record, value) == [type |-> type, sensor_id |-> record.sensor_id, value |-> value]

\* worker_node.py:88-153: the alerts of one validated record, in the order
\* the checks are made.
RecordAlerts(record) ==
       (IF Gt(record.flow_rate, FlowRateMax)
        THEN <<Alert("flow_rate_high", record, record.flow_rate)>> ELSE <<>>)
    \o (IF Gt(record.pressure, PressureMax)
        THEN <<Alert("pressure_high", record, record.pressure)>> ELSE <<>>)
    \o (IF Gt(record.temperature, TemperatureMax)
        THEN <<Alert("temperature_high", record, record.temperature)>> ELSE <<>>)
    \o (IF Lt(record.ph_level, PhMin)
        THEN <<Alert("ph_low", record, record.ph_level)>>
        ELSE IF Gt(record.ph_level, PhMax)
             THEN <<Alert("ph_high", record, record.ph_level)>> ELSE <<>>)
    \o (IF Gt(record.turbidity, TurbidityMax)
        THEN <<Alert("turbidity_high", record, record.turbidity)>> ELSE <<>>)

RECURSIVE detect_anomalies(_)
detect_anomalies(data) ==
    IF data = <<>> THEN <<>>
    ELSE RecordAlerts(Head(data)) \o detect_anomalies(Tail(data))

\* Only the rows that lack a required field count as invalid.
process_batch_SoCamposFaltando(batch_data, rank) ==
    LET validated_data == validate_data(batch_data.data)
        alerts == detect_anomalies(validated_data)
    IN  [batch_id |-> batch_data.batch_id,
         worker_rank |-> rank,
         records_processed |-> Len(validated_data),
         records_invalid |->
             Cardinality({i \in 1 .. Len(batch_data.data) :
                             ~ (RequiredFields \subseteq DOMAIN batch_data.data[i])}),
         alerts_count |-> Len(alerts),
         alerts |-> alerts,
         processed_data |-> validated_data]

\* worker_node.py:194-230
process_batch(batch_data, rank) ==
    LET validated_data == validate_data(batch_data.data)
        alerts == detect_anomalies(validated_data)
    IN  [batch_id |-> batch_data.batch_id,
         worker_rank |-> rank,
         records_processed |-> Len(validated_data),
         records_invalid |-> Len(batch_data.data) - Len(validated_data),
         alerts_count |-> Len(alerts),
         alerts |-> alerts,
         processed_data |-> validated_data]

\* ------------------------------------------------------------ float64
\* Natural numbers of any size: the digits in base 2^14, lowest first, no
\* zero digit at the top; <<>> is 0.

\* e, with v evaluated before it.  The value of an operator's argument is
\* otherwise computed where the operator first uses it, however deep inside
\* another computation that is.
After(v, e) == IF v = v THEN e ELSE e

\* the largest of a nonempty set of integers
Maior(S) == CHOOSE i \in S : \A j \in S : j <= i

\* the digits f[1], f[2], ... without the zero digits at the top
BTrim(f) ==
    IF \A i \in 1 .. Len(f) : f[i] = 0 THEN <<>>
    ELSE SubSeq(f, 1, Maior({i \in 1 .. Len(f) : f[i] # 0}))

RECURSIVE BNat(_)
BNat(n) == IF n = 0 THEN <<>> ELSE <<n % 16384>> \o BNat(n \div 16384)

Digit(a, i) == IF 1 <= i /\ i <= Len(a) THEN a[i] ELSE 0

\* the carry into digit i of a + b: a lower digit j produces one and every
\* digit between j and i passes it on
Vai(a, b, i) ==
    \E j \in 1 .. i - 1 :
        /\ Digit(a, j) + Digit(b, j) >= 16384
        /\ \A k \in j + 1 .. i - 1 : Digit(a, k) + Digit(b, k) = 16383

\* a + b
BAdd(a, b) ==
    IF a = <<>> THEN b
    ELSE IF b = <<>> THEN a
    ELSE BTrim([i \in 1 .. (IF Len(a) > Len(b) THEN Len(a) ELSE Len(b)) + 1 |->
                   (Digit(a, i) + Digit(b, i) + (IF Vai(a, b, i) THEN 1 ELSE 0)) % 16384])

\* what digit i lends in a - b: a lower digit j falls short and the digits
\* between j and i are equal in a and b
Deve(a, b, i) ==
    \E j \in 1 .. i - 1 :
        /\ a[j] < Digit(b, j)
        /\ \A k \in j + 1 .. i - 1 : a[k] = Digit(b, k)

\* a - b, for a >= b
BSub(a, b) ==
    IF b = <<>> THEN a
    ELSE BTrim([i \in 1 .. Len(a) |->
                   (a[i] - Digit(b, i) - (IF Deve(a, b, i) THEN 1 ELSE 0) + 16384) % 16384])

\* -1, 0 or 1 as a is below, equal to or above b
BCmp(a, b) ==
    IF Len(a) # Len(b) THEN (IF Len(a) > Len(b) THEN 1 ELSE -1)
    ELSE IF a = b THEN 0
    ELSE IF a[Maior({i \in 1 .. Len(a) : a[i] # b[i]})] > b[Maior({i \in 1 .. Len(a) : a[i] # b[i]})]
         THEN 1 ELSE -1

\* a times the digit c: the low halves of the products of the digits plus
\* their high halves one digit up
BMulDigit(a, c) ==
    IF a = <<>> \/ c = 0 THEN <<>>
    ELSE BAdd(BTrim([i \in 1 .. Len(a) |-> (a[i] * c) % 16384]),
              BTrim([i \in 1 .. Len(a) + 1 |-> (Digit(a, i - 1) * c) \div 16384]))

\* a times 2^(14 d)
ShiftDigits(a, d) == IF a = <<>> THEN <<>> ELSE [i \in 1 .. d |-> 0] \o a

RECURSIVE BMulAt(_, _, _)
\* a times the number made of the digits j, j + 1, ... of b
BMulAt(a, b, j) ==
    IF j > Len(b) THEN <<>>
    ELSE BAdd(ShiftDigits(BMulAt(a, b, j + 1), 1), BMulDigit(a, b[j]))

BMul(a, b) == BMulAt(a, b, 1)

\* a times 2^s
BShl(a, s) ==
    IF a = <<>> THEN <<>>
    ELSE BTrim([i \in 1 .. Len(a) + (s \div 14) + 1 |->
                   ((Digit(a, i - (s \div 14)) * (2 ^ (s % 14))) % 16384)
                   + ((Digit(a, i - (s \div 14) - 1) * (2 ^ (s % 14))) \div 16384)])

\* a div 2^s
BShr(a, s) ==
    IF Len(a) <= s \div 14 THEN <<>>
    ELSE BTrim([i \in 1 .. Len(a) - (s \div 14) |->
                   (a[i + (s \div 14)] \div (2 ^ (s % 14)))
                   + ((Digit(a, i + (s \div 14) + 1) % (2 ^ (s % 14))) * (2 ^ (14 - (s % 14))))])

\* the number of binary digits of n, for n below 2^14
NatBits(n) == CHOOSE b \in 0 .. 14 : n < 2 ^ b /\ (b = 0 \/ n >= 2 ^ (b - 1))

\* the number of binary digits of a
BBitLen(a) == IF a = <<>> THEN 0 ELSE 14 * (Len(a) - 1) + NatBits(a[Len(a)])

\* the digit r div d, given that it is est, est - 1 or est - 2
QuotientFrom(r, d, est) ==
    IF BCmp(BMulDigit(d, est), r) <= 0 THEN est
    ELSE IF BCmp(BMulDigit(d, est - 1), r) <= 0 THEN est - 1
    ELSE est - 2

\* the digit r div d, for r below 2^14 d and d with a top digit of at least
\* 2^13: the quotient of the two top digits of r by the top digit of d, or
\* 2^14 - 1 if that is less, is that digit or up to 2 above it (Knuth, The
\* Art of Computer Programming, 4.3.1, Theorem B)
QuotientDigit(r, d) ==
    IF (Digit(r, Len(d) + 1) * 16384 + Digit(r, Len(d))) \div d[Len(d)] > 16383
    THEN QuotientFrom(r, d, 16383)
    ELSE QuotientFrom(r, d, (Digit(r, Len(d) + 1) * 16384 + Digit(r, Len(d))) \div d[Len(d)])

RECURSIVE BDivDigits(_, _, _, _, _)
\* the digit dig of the quotient goes below those of q, and the division
\* goes on with what r leaves
BDivPut(a, d, i, r, q, dig) ==
    After(dig, BDivDigits(a, d, i - 1, BSub(r, BMulDigit(d, dig)), <<dig>> \o q))

\* long division by d: the digits i, ..., 1 of a are brought down onto the
\* remainder r, and the digits of the quotient are put below those of q
BDivDigits(a, d, i, r, q) ==
    IF i = 0 THEN [q |-> q, r |-> r]
    ELSE BDivPut(a, d, i, BTrim(<<a[i]>> \o r), q, QuotientDigit(BTrim(<<a[i]>> \o r), d))

\* the quotient, and the remainder shifted back
BDivOut(qr, norma) == [q |-> BTrim(qr.q), r |-> BShr(qr.r, norma)]

\* the division of a by d, both already shifted, starts from the top digits
\* of a, one fewer than d has, as remainder
BDivShifted(a, d, norma) ==
    BDivOut(BDivDigits(a, d, Len(a) - Len(d) + 1, SubSeq(a, Len(a) - Len(d) + 2, Len(a)), <<>>),
            norma)

\* quotient q and remainder r of a by d, for d other than 0; a and d are
\* first multiplied by the power of 2 that brings the top digit of d to
\* 2^13 or above
BDivMod(a, d) ==
    IF Len(a) < Len(d) THEN [q |-> <<>>, r |-> a]
    ELSE BDivShifted(BShl(a, 14 - NatBits(d[Len(d)])), BShl(d, 14 - NatBits(d[Len(d)])),
                     14 - NatBits(d[Len(d)]))

RECURSIVE Newton(_, _)
\* s0 if s1, the next value of the iteration, is not below it
NewtonNext(a, s0, s1) == IF BCmp(s1, s0) >= 0 THEN s0 ELSE Newton(a, s1)

\* the integer square root of a by Newton's iteration from s0 above it
Newton(a, s0) == NewtonNext(a, s0, BShr(BAdd(s0, BDivMod(a, s0).q), 1))

\* the root, rounded up, of n below 2^28
RaizAcima(n) == CHOOSE t \in 1 .. 16384 : (t - 1) * (t - 1) <= n /\ n < t * t

\* q and r = a - q^2
BSqrtOf(a, q) == [q |-> q, r |-> BSub(a, BMul(q, q))]

\* q = the integer square root of a, r = a - q^2.  The iteration starts
\* from the root, rounded up, of the one or two top digits of a.
BSqrt(a) ==
    IF a = <<>> THEN [q |-> <<>>, r |-> <<>>]
    ELSE BSqrtOf(a, Newton(a, ShiftDigits(
             BNat(RaizAcima(Digit(a, 2 * ((Len(a) - 1) \div 2) + 2) * 16384
                            + a[2 * ((Len(a) - 1) \div 2) + 1])),
             (Len(a) - 1) \div 2)))

\* A float64 that is neither infinite nor NaN nor subnormal: + or - m 2^x
\* with m below 2^53.
Float(neg, m, x) == [neg |-> neg, m |-> m, x |-> x]

FZero == Float(FALSE, <<>>, 0)

\* + or - m 2^x with m of at most 54 binary digits brought to 53
RoundTop(neg, m, x) ==
    IF BBitLen(m) > 53 THEN Float(neg, BShr(m, 1), x + 1) ELSE Float(neg, m, x)

\* m was cut to quoc; meio is -1, 0 or 1 as what was cut off is below, at or
\* above half a unit of quoc
RoundUp(neg, quoc, x, meio, sticky) ==
    IF meio > 0 \/ (meio = 0 /\ (sticky \/ quoc[1] % 2 = 1))
    THEN RoundTop(neg, BAdd(quoc, <<1>>), x)
    ELSE Float(neg, quoc, x)

\* m loses its corte lowest binary digits
RoundCut(neg, m, x, sticky, corte, quoc) ==
    RoundUp(neg, quoc, x + corte,
            BCmp(BSub(m, BShl(quoc, corte)), BShl(<<1>>, corte - 1)), sticky)

\* IEEE 754 round to nearest, ties to even, of + or - (m 2^x), or of a value
\* strictly between m 2^x and (m + 1) 2^x when sticky; with sticky m has
\* more than 54 binary digits.
Round(neg, m, x, sticky) ==
    IF m = <<>> THEN FZero
    ELSE IF BBitLen(m) <= 53 THEN Float(neg, m, x)
    ELSE RoundCut(neg, m, x, sticky, BBitLen(m) - 53, BShr(m, BBitLen(m) - 53))

FNeg(a) == Float(~ a.neg, a.m, a.x)
FAbs(a) == Float(FALSE, a.m, a.x)

\* (-1)^na ma 2^x + (-1)^nb mb 2^x, for ab = BCmp(ma, mb)
FAddAt(na, ma, nb, mb, x, ab) ==
    IF na = nb THEN Round(na, BAdd(ma, mb), x, FALSE)
    ELSE IF ab = 0 THEN FZero
    ELSE Round(IF ab > 0 THEN na ELSE nb,
               IF ab > 0 THEN BSub(ma, mb) ELSE BSub(mb, ma), x, FALSE)

\* a + b, with both brought to the exponent x
FAddTo(a, b, x) ==
    FAddAt(a.neg, BShl(a.m, a.x - x), b.neg, BShl(b.m, b.x - x), x,
           BCmp(BShl(a.m, a.x - x), BShl(b.m, b.x - x)))

\* a + b
FAdd(a, b) ==
    IF a.m = <<>> THEN b
    ELSE IF b.m = <<>> THEN a
    ELSE FAddTo(a, b, IF a.x < b.x THEN a.x ELSE b.x)

\* a - b
FSub(a, b) == FAdd(a, FNeg(b))

\* a * b
FMul(a, b) ==
    IF a.m = <<>> \/ b.m = <<>> THEN FZero
    ELSE Round(a.neg # b.neg, BMul(a.m, b.m), a.x + b.x, FALSE)

\* + or - the quotient dm.q with exponent x, sticky for a remainder dm.r
FDivOut(neg, dm, x) == Round(neg, dm.q, x, dm.r # <<>>)

\* a / b with a.m multiplied by 2^desl, which gives the quotient more than
\* 54 binary digits
FDivBy(a, b, desl) == FDivOut(a.neg # b.neg, BDivMod(BShl(a.m, desl), b.m), a.x - b.x - desl)

\* a / b, for b other than 0
FDiv(a, b) ==
    IF a.m = <<>> THEN FZero
    ELSE IF b.m = <<>> THEN FZero
    ELSE FDivBy(a, b, IF 56 + BBitLen(b.m) - BBitLen(a.m) < 0 THEN 0
                      ELSE 56 + BBitLen(b.m) - BBitLen(a.m))

\* the root rz.q with exponent x, sticky for a remainder rz.r
FSqrtOut(rz, x) == Round(FALSE, rz.q, x, rz.r # <<>>)

\* the root of a with a.m multiplied by 2^par, for a.x - par even
FSqrtBy(a, par) == FSqrtOut(BSqrt(BShl(a.m, par)), (a.x - par) \div 2)

\* a.m gets at least 111 binary digits, which gives the root more than 54
FSqrtFrom(a, par0) == FSqrtBy(a, par0 + ((a.x - par0) % 2))

\* np.sqrt(a), for a >= 0
FSqrt(a) ==
    IF a.m = <<>> THEN FZero
    ELSE FSqrtFrom(a, IF BBitLen(a.m) < 111 THEN 111 - BBitLen(a.m) ELSE 0)

FPositive(a) == a.m # <<>> /\ ~ a.neg

FNegative(a) == a.m # <<>> /\ a.neg

\* |a| against |b|: 1, 0 or -1
FCmpAbs(a, b) ==
    IF a.x >= b.x THEN BCmp(BShl(a.m, a.x - b.x), b.m)
    ELSE BCmp(a.m, BShl(b.m, b.x - a.x))

\* a > b
FGt(a, b) ==
    IF FNegative(a) THEN FNegative(b) /\ FCmpAbs(b, a) > 0
    ELSE FNegative(b) \/ FCmpAbs(a, b) > 0

\* float(n) of an integer n
FromInt(n) == Float(n < 0, BNat(IF n < 0 THEN 0 - n ELSE n), 0)

\* The float64 of the decimal t/10: the nearest one.
FromTenths(t) == FDiv(FromInt(t), FromInt(10))

RECURSIVE SomaPasso(_, _, _, _, _)
\* res + a[i] + a[i + passo] + ... over the indices up to j, from left to
\* right
SomaPasso(a, i, passo, j, res) ==
    IF i > j THEN res
    ELSE After(res, SomaPasso(a, i + passo, passo, j, FAdd(res, a[i])))

RECURSIVE SomaPares(_, _, _)
\* the running sums i, ..., j of the eight over the positions modulo 8 of
\* the first 8 (Len(a) div 8) values, added in pairs
SomaPares(a, i, j) ==
    IF i = j THEN SomaPasso(a, i + 8, 8, Len(a) - (Len(a) % 8), a[i])
    ELSE FAdd(SomaPares(a, i, (i + j) \div 2), SomaPares(a, (i + j) \div 2 + 1, j))

\* numpy's pairwise summation (add.reduce) of at most 128 float64: below 8
\* values from left to right, else eight running sums, added in pairs, and
\* the last Len(a) % 8 values one by one.
pairwise_sum(a) ==
    IF Len(a) < 8 THEN SomaPasso(a, 1, 1, Len(a), FZero)
    ELSE SomaPasso(a, Len(a) - (Len(a) % 8) + 1, 1, Len(a), SomaPares(a, 1, 8))

\* np.mean(a): the sum over the count
np_mean(a) == FDiv(pairwise_sum(a), FromInt(Len(a)))

FSquare(a) == FMul(a, a)

\* (a - media) * (a - media), value by value
Quadrados(a, media) ==
    After(media, SubSeq([i \in 1 .. Len(a) |-> FSquare(FSub(a[i], media))], 1, Len(a)))

\* np.std(a): the square root of the mean of the squares of a - mean
np_std(a) == FSqrt(np_mean(Quadrados(a, np_mean(a))))

\* historico[:-1] as np.array: the float64 of each reading
np_array(h) == SubSeq([i \in 1 .. Len(h) |-> FromTenths(h[i])], 1, Len(h))

\* ------------------------------------------------------------- MasterNode
\* Slices whose end is one row too far: data.iloc[i:i+batch_size+1].
MakeBatchesOverlap(data, bs) ==
    [k \in 1 .. ((Len(data) + bs - 1) \div bs) |->
        SubSeq(data, (k - 1) * bs + 1, Min(k * bs + 1, Len(data)))]

\* master_node.py:91-94: contiguous slices of batch_size rows.
MakeBatches(data, bs) ==
    [k \in 1 .. ((Len(data) + bs - 1) \div bs) |->
        SubSeq(data, (k - 1) * bs + 1, Min(k * bs, Len(data)))]

RECURSIVE SeqMap(_, _)
SeqMap(Op(_), s) == IF s = <<>> THEN <<>> ELSE <<Op(Head(s))>> \o SeqMap(Op, Tail(s))

RecordsProcessed(r) == r.records_processed
AlertsCount(r) == r.alerts_count
AlertsOf(r) == r.alerts
ProcessedData(r) == r.processed_data

NoReport == [empty |-> TRUE]

\* The values of a column that are not NaN: pandas skips NaN in mean, min
\* and max (skipna=True).
NotNaN(col) == SelectSeq(col, LAMBDA c : c.k # "nan")

RECURSIVE MinAte(_, _)
MinAte(v, n) == IF n = 1 THEN v[1] ELSE Min(MinAte(v, n - 1), v[n])

RECURSIVE MaxAte(_, _)
MaxAte(v, n) ==
    IF n = 1 THEN v[1]
    ELSE LET m == MaxAte(v, n - 1) IN IF m > v[n] THEN m ELSE v[n]

\* The float64 a as a cell: a mantissa of 53 binary digits and its
\* exponent, so that equal numbers are equal cells.
Float64(a) ==
    IF a.m = <<>> THEN [k |-> "fin", f |-> FZero]
    ELSE [k |-> "fin", f |-> Float(a.neg, BShl(a.m, 53 - BBitLen(a.m)), a.x - (53 - BBitLen(a.m)))]

\* The column as nanmean adds it: the float64 of each value, 0.0 in the
\* place of a NaN.
ValuesFilled(col) ==
    SubSeq([i \in 1 .. Len(col) |-> IF col[i].k = "fin" THEN FromTenths(col[i].v) ELSE FZero],
           1, Len(col))

\* Series.mean() of a float64 column without infinite values (pandas
\* nanops.nanmean, skipna=True): the NaN are replaced by 0.0, the values
\* are added by numpy's sum in row order, and the sum is divided by the
\* number of values that are not NaN.
nanmean(col) == FDiv(pairwise_sum(ValuesFilled(col)), FromInt(Len(NotNaN(col))))

\* max is the value of the last row.
ColumnStats_UltimoMax(col) ==
    LET c == NotNaN(col)
        f == SelectSeq(c, LAMBDA x : x.k = "fin")
        v == SubSeq([i \in 1 .. Len(f) |-> f[i].v], 1, Len(f))
        pinf == \E i \in 1 .. Len(c) : c[i].k = "inf"
        ninf == \E i \in 1 .. Len(c) : c[i].k = "-inf"
    IN  IF c = <<>> THEN [mean |-> NaN, min |-> NaN, max |-> NaN]
        ELSE [mean |-> IF pinf /\ ninf THEN NaN
                       ELSE IF pinf THEN PosInf
                       ELSE IF ninf THEN NegInf
                       ELSE Float64(nanmean(col)),
              min |-> IF ninf THEN NegInf
                      ELSE IF v # <<>> THEN Fin(MinAte(v, Len(v))) ELSE PosInf,
              max |-> IF pinf THEN PosInf
                      ELSE IF v # <<>> THEN Fin(v[Len(v)]) ELSE NegInf]

\* master_node.py:177-194: mean(), min() and max() of one column of df_all.
\* The mean is the float64 number nanmean gives; an infinite value makes
\* the sum, and so the mean, infinite, and inf - inf is NaN.  std() is left
\* out.
ColumnStats(col) ==
    LET c == NotNaN(col)
        f == SelectSeq(c, LAMBDA x : x.k = "fin")
        v == SubSeq([i \in 1 .. Len(f) |-> f[i].v], 1, Len(f))
        pinf == \E i \in 1 .. Len(c) : c[i].k = "inf"
        ninf == \E i \in 1 .. Len(c) : c[i].k = "-inf"
    IN  IF c = <<>> THEN [mean |-> NaN, min |-> NaN, max |-> NaN]
        ELSE [mean |-> IF pinf /\ ninf THEN NaN
                       ELSE IF pinf THEN PosInf
                       ELSE IF ninf THEN NegInf
                       ELSE Float64(nanmean(col)),
              min |-> IF ninf THEN NegInf
                      ELSE IF v # <<>> THEN Fin(MinAte(v, Len(v))) ELSE PosInf,
              max |-> IF pinf THEN PosInf
                      ELSE IF v # <<>> THEN Fin(MaxAte(v, Len(v))) ELSE NegInf]

StatFields == {"flow_rate", "pressure", "temperature"}

\* master_node.py:170 and 176-195
Statistics(all_data) ==
    [f \in StatFields |->
        ColumnStats(SubSeq([i \in 1 .. Len(all_data) |-> all_data[i][f]], 1, Len(all_data)))]

\* The first result is left out of the record count.
process_results_SkipFirst(rs) ==
    IF rs = <<>> THEN NoReport
    ELSE [empty |-> FALSE,
          total_records |-> SumSeq(SeqMap(RecordsProcessed, Tail(rs))),
          total_alerts |-> SumSeq(SeqMap(AlertsCount, rs)),
          alerts |-> Flatten(SeqMap(AlertsOf, rs)),
          data_count |-> Len(Flatten(SeqMap(ProcessedData, rs)))]

\* The alert count is the number of results.
process_results_ContaLotes(rs) ==
    IF rs = <<>> THEN NoReport
    ELSE LET all_data == Flatten(SeqMap(ProcessedData, rs))
         IN  [empty |-> FALSE,
              total_records |-> SumSeq(SeqMap(RecordsProcessed, rs)),
              total_alerts |-> Len(rs),
              alerts |-> Flatten(SeqMap(AlertsOf, rs)),
              data_count |-> Len(all_data),
              statistics |-> IF all_data # <<>> THEN Statistics(all_data) ELSE <<>>]

\* master_node.py:150-207; data_count is the number of rows of df_all, the
\* readings the statistics are taken over.
process_results(rs) ==
    IF rs = <<>> THEN NoReport
    ELSE LET all_data == Flatten(SeqMap(ProcessedData, rs))
         IN  IF all_data # <<>>
             THEN [empty |-> FALSE,
                   total_records |-> SumSeq(SeqMap(RecordsProcessed, rs)),
                   total_alerts |-> SumSeq(SeqMap(AlertsCount, rs)),
                   alerts |-> Flatten(SeqMap(AlertsOf, rs)),
                   data_count |-> Len(all_data),
                   statistics |-> Statistics(all_data)]
             ELSE [empty |-> FALSE, total_records |-> 0, total_alerts |-> 0,
                   alerts |-> <<>>, data_count |-> 0, statistics |-> <<>>]

\* ------------------------------------------------------ DetectorAnomalias
Sensores == {"SENSOR_001", "SENSOR_002"}

\* DetectorAnomalias.__init__: no sensor has a history (a sensor that is
\* not in the dictionary is one with the empty list).
SemHistorico == [s \in Sensores |-> <<>>]

\* The history grows without limit.
adicionar_leitura_SemLimite(hs, sensor_id, vazao) ==
    [hs EXCEPT ![sensor_id] = Append(@, vazao)]

\* The reading goes into the history of every sensor.
adicionar_leitura_Todos(hs, sensor_id, vazao) ==
    [s \in Sensores |->
        LET h == Append(hs[s], vazao)
        IN  IF Len(h) > max_historico
            THEN SubSeq(h, Len(h) - max_historico + 1, Len(h)) ELSE h]

\* sistema_monitoramento.py:60-70: append, then keep the last max_historico.
adicionar_leitura(hs, sensor_id, vazao) ==
    LET h == Append(hs[sensor_id], vazao)
    IN  [hs EXCEPT ![sensor_id] =
            IF Len(h) > max_historico
            THEN SubSeq(h, Len(h) - max_historico + 1, Len(h)) ELSE h]

Classe(anomalia, tipo) == [anomalia |-> anomalia, tipo |-> tipo]

RECURSIVE SomaEntre(_, _, _)
\* h[i] + ... + h[j], one half after the other
SomaEntre(h, i, j) ==
    IF i > j THEN 0
    ELSE IF i = j THEN h[i]
    ELSE SomaEntre(h, i, (i + j) \div 2) + SomaEntre(h, (i + j) \div 2 + 1, j)

\* h[1] + ... + h[n]
SomaAte(h, n) == SomaEntre(h, 1, n)

Abs(n) == IF n < 0 THEN 0 - n ELSE n

\* The values of the window h are within 6000 / Len(h) tenths of h[1],
\* which is below 10^6: the sums about h[1] and their products are below
\* 2^31, and the float64 mean of such values is off by less than 10^-6 of
\* the smallest standard deviation there is, 1 / (10 Len(h)).
Pequena(h) ==
    /\ Abs(h[1]) <= 1000000
    /\ \A i \in 1 .. Len(h) : Abs(h[i] - h[1]) <= 6000 \div Len(h)

\* The window h and the number n of its values; for a small window
\* (exata) the sum S and the sum of squares Q of the values taken about
\* base = h[1].
Estatistica(h) ==
    LET d == [i \in 1 .. Len(h) |-> h[i] - h[1]]
    IN  [h |-> h, n |-> Len(h), base |-> h[1], exata |-> Pequena(h),
         S |-> IF Pequena(h) THEN SomaAte(d, Len(h)) ELSE 0,
         Q |-> IF Pequena(h) THEN SomaAte([i \in 1 .. Len(h) |-> d[i] * d[i]], Len(h)) ELSE 0]

\* The window is small and the reading v is as near to its first value as
\* its own values are.
Exata(e, v) == e.exata /\ Abs(v - e.base) <= 6000 \div e.n

\* The whole numbers a and b > 0 differ by more than b / 2^16.
Separados(a, b) == a # b /\ b \div Abs(a - b) < 65536

\* n^2 times the square of the exact standard deviation of the window, in
\* tenths
Var(e) == e.n * e.Q - e.S * e.S

\* n times (v - the exact mean of the window), in tenths
Dev(e, v) == e.n * (v - e.base) - e.S

\* sistema_monitoramento.py:96: z_score = abs(vazao_atual - media) / desvio,
\* in float64
z_score(vazao_atual, media, desvio) == FDiv(FAbs(FSub(vazao_atual, media)), desvio)

\* The float64 numbers of one call: the reading, the media and the desvio
\* of the window, and the z_score, which is computed when desvio is not 0.
Medida(vazao_atual, media, desvio) ==
    [vazao_atual |-> vazao_atual, media |-> media, desvio |-> desvio,
     z_score |-> IF desvio.m = <<>> THEN FZero ELSE z_score(vazao_atual, media, desvio)]

\* sistema_monitoramento.py:88-89: media = np.mean(historico_array),
\* desvio = np.std(historico_array)
MedidaDe(vazao_atual, historico_array) ==
    Medida(vazao_atual, np_mean(historico_array), np_std(historico_array))

\* sistema_monitoramento.py:74 and 85-96 for the window h and the reading v,
\* both in tenths
Medidas(h, v) == MedidaDe(FromTenths(v), np_array(h))

\* sistema_monitoramento.py:92: desvio == 0.  The standard deviation of a
\* window of n values that are not all equal is at least 1/(10 n), which no
\* rounding brings to 0; for equal values np.std decides: their float64
\* mean need not be the common value.  f holds the float64 numbers of the
\* call.
DesvioZero(e, f) == (e.exata => Var(e) = 0) /\ f.desvio.m = <<>>

\* sistema_monitoramento.py:99 and 104: z_score > t/10, for a threshold t/10
\* that is a multiple of 0.5.  The exact quotient |v - mean| / std is above
\* (t/5)/2 when 4 Dev^2 > (t/5)^2 Var.  For a small window and reading the
\* float64 z_score is within one part in 10^6 of the exact quotient, so the
\* exact numbers decide where they are separated; the float64 z_score of f
\* decides everywhere else: where the exact quotient is the threshold or
\* next to it, where the values of the window are equal, and where the
\* values are not small.
ZAbove(e, f, v, t) ==
    IF /\ Exata(e, v)
       /\ Var(e) # 0
       /\ Separados(4 * Dev(e, v) * Dev(e, v), (t \div 5) * (t \div 5) * Var(e))
    THEN 4 * Dev(e, v) * Dev(e, v) > (t \div 5) * (t \div 5) * Var(e)
    ELSE FGt(f.z_score, FromTenths(t))

\* sistema_monitoramento.py:100 and 105: vazao_atual > media.  A reading
\* other than the exact mean is off it by at least 1/(10 n); for the exact
\* mean, and where the values are not small, the float64 numbers of f
\* decide.
AcimaDaMedia(e, f, v) ==
    IF Exata(e, v) /\ Dev(e, v) # 0 THEN Dev(e, v) > 0
    ELSE FGt(f.vazao_atual, f.media)

\* The high class is tested before the critical one.
Classificar_AltoPrimeiro(e, f, vazao_atual) ==
    IF DesvioZero(e, f) THEN Classe(FALSE, "SENSOR_CONSTANTE")
    ELSE IF ZAbove(e, f, vazao_atual, threshold_desvio)
         THEN IF AcimaDaMedia(e, f, vazao_atual)
              THEN Classe(TRUE, "VAZAMENTO_ALTO")
              ELSE Classe(TRUE, "ENTUPIMENTO_ALTO")
         ELSE Classe(FALSE, "NORMAL")

Classificacao_AltoPrimeiro(historico, vazao_atual) ==
    IF Len(historico) < min_historico THEN Classe(FALSE, "HISTORICO_INSUFICIENTE")
    ELSE Classificar_AltoPrimeiro(Estatistica(SubSeq(historico, 1, Len(historico) - 1)),
                                  Medidas(SubSeq(historico, 1, Len(historico) - 1), vazao_atual),
                                  vazao_atual)

\* sistema_monitoramento.py:92-110: the tests on desvio, z_score and media,
\* for the window described by e and the float64 numbers f of the call.
Classificar(e, f, vazao_atual) ==
    IF DesvioZero(e, f) THEN Classe(FALSE, "SENSOR_CONSTANTE")
    ELSE IF ZAbove(e, f, vazao_atual, threshold_critico)
         THEN IF AcimaDaMedia(e, f, vazao_atual)
              THEN Classe(TRUE, "VAZAMENTO_CRITICO")
              ELSE Classe(TRUE, "ENTUPIMENTO_CRITICO")
         ELSE IF ZAbove(e, f, vazao_atual, threshold_desvio)
              THEN IF AcimaDaMedia(e, f, vazao_atual)
                   THEN Classe(TRUE, "VAZAMENTO_ALTO")
                   ELSE Classe(TRUE, "ENTUPIMENTO_ALTO")
              ELSE Classe(FALSE, "NORMAL")

\* sistema_monitoramento.py:83-110, on the history that already holds the
\* current reading; the window is historico_array = historico[:-1].
Classificacao(historico, vazao_atual) ==
    IF Len(historico) < min_historico THEN Classe(FALSE, "HISTORICO_INSUFICIENTE")
    ELSE Classificar(Estatistica(SubSeq(historico, 1, Len(historico) - 1)),
                     Medidas(SubSeq(historico, 1, Len(historico) - 1), vazao_atual),
                     vazao_atual)

\* sistema_monitoramento.py:72-110.  float(vazao_atual) comes first: when it
\* raises, nothing has been appended.
detectar_anomalia(hs, sensor_id, vazao) ==
    IF FloatRaises(vazao)
    THEN [raised |-> TRUE, historico_sensores |-> hs, classe |-> Classe(FALSE, "NONE")]
    ELSE LET vazao_atual == vazao.v
             novo == adicionar_leitura(hs, sensor_id, vazao_atual)
         IN  [raised |-> FALSE, historico_sensores |-> novo,
              classe |-> Classificacao(novo[sensor_id], vazao_atual)]

\* sistema_monitoramento.py:310
EmiteAlerta(anomalia, tipo) ==
    anomalia /\ tipo \notin {"SEM_HISTORICO", "HISTORICO_INSUFICIENTE"}

\* sistema_monitoramento.py:317-318: float() of the latitude or of the
\* longitude cell raises while the alert is built.
AlertaRaises(sensor_data) ==
    FloatRaises(sensor_data.latitude) \/ FloatRaises(sensor_data.longitude)

\* sistema_monitoramento.py:311-321, for cells float() converts (the
\* timestamp is left out); por is the rank in "Worker rank (Região rank)".
Alerta(sensor_data, tipo, por) ==
    [sensor_id |-> sensor_data.sensor_id, tipo |-> tipo,
     vazao |-> sensor_data.vazao.v,
     localizacao |-> <<sensor_data.latitude.v, sensor_data.longitude.v>>,
     processado_por |-> por]

\* The state of the loop over the readings of one chunk.
Laco(hs, alertas, trace, raised) ==
    [historico_sensores |-> hs, alertas |-> alertas, trace |-> trace, raised |-> raised]

\* What detectar_anomalia returned for a reading.
Classificada(sensor_data, classe) ==
    [sensor_id |-> sensor_data.sensor_id, vazao |-> sensor_data.vazao.v, classe |-> classe]

\* sistema_monitoramento.py:310-322: what follows the call of
\* detectar_anomalia that gave r; trace records what it returned for each
\* reading.  An exception leaves the loop: the one of the call itself,
\* with the history as it was, or the one of building the alert, with the
\* reading already in the history and no alert appended.
AposDeteccao(st, sensor_data, por, r) ==
    IF r.raised THEN [st EXCEPT !.raised = TRUE]
    ELSE IF ~ EmiteAlerta(r.classe.anomalia, r.classe.tipo)
    THEN Laco(r.historico_sensores, st.alertas,
              Append(st.trace, Classificada(sensor_data, r.classe)), FALSE)
    ELSE IF AlertaRaises(sensor_data)
    THEN Laco(r.historico_sensores, st.alertas,
              Append(st.trace, Classificada(sensor_data, r.classe)), TRUE)
    ELSE Laco(r.historico_sensores,
              Append(st.alertas, Alerta(sensor_data, r.classe.tipo, por)),
              Append(st.trace, Classificada(sensor_data, r.classe)), FALSE)

\* sistema_monitoramento.py:304-322, one iteration of the loop
ProcessarLeitura(st, sensor_data, por) ==
    IF st.raised THEN st
    ELSE AposDeteccao(st, sensor_data, por,
                      detectar_anomalia(st.historico_sensores, sensor_data.sensor_id,
                                        sensor_data.vazao))

RECURSIVE ProcessarSensores(_, _, _)
\* the readings resto from where the loop is in state antes
Seguir(antes, resto, por) == After(antes, ProcessarSensores(antes, resto, por))

\* sistema_monitoramento.py:303-322, the whole loop: the readings in order,
\* the second half of them from where the first half leaves the loop.
ProcessarSensores(st, sensores, por) ==
    IF sensores = <<>> THEN st
    ELSE IF Len(sensores) = 1 THEN ProcessarLeitura(st, sensores[1], por)
    ELSE Seguir(ProcessarSensores(st, SubSeq(sensores, 1, Len(sensores) \div 2), por),
                SubSeq(sensores, Len(sensores) \div 2 + 1, Len(sensores)), por)

\* sistema_monitoramento.py:262
EmiteAlertaLocal(tem_anomalia, tipo_anomalia) ==
    tem_anomalia /\ tipo_anomalia \notin {"SEM_HISTORICO", "HISTORICO_INSUFICIENTE"}

\* sistema_monitoramento.py:269-270: float() of the latitude or of the
\* longitude cell raises while the alert is built.
AlertaLocalRaises(sensor_data) ==
    FloatRaises(sensor_data.latitude) \/ FloatRaises(sensor_data.longitude)

\* sistema_monitoramento.py:263-273, for cells float() converts (the
\* timestamp is left out); rank is the one in "Master rank".
AlertaLocal(sensor_data, tipo_anomalia, rank) ==
    [sensor_id |-> sensor_data.sensor_id, tipo |-> tipo_anomalia,
     vazao |-> sensor_data.vazao.v,
     localizacao |-> <<sensor_data.latitude.v, sensor_data.longitude.v>>,
     processado_por |-> rank]

\* sistema_monitoramento.py:262-274: what follows the call of
\* self.detector.detectar_anomalia that gave r.  An exception leaves
\* processar_dados_local.
AposDeteccaoLocal(st, sensor_data, r) ==
    IF r.raised THEN [st EXCEPT !.raised = TRUE]
    ELSE IF EmiteAlertaLocal(r.classe.anomalia, r.classe.tipo)
    THEN IF AlertaLocalRaises(sensor_data)
         THEN Laco(r.historico_sensores, st.alertas,
                   Append(st.trace, Classificada(sensor_data, r.classe)), TRUE)
         ELSE Laco(r.historico_sensores,
                   Append(st.alertas, AlertaLocal(sensor_data, r.classe.tipo, 0)),
                   Append(st.trace, Classificada(sensor_data, r.classe)), FALSE)
    ELSE Laco(r.historico_sensores, st.alertas,
              Append(st.trace, Classificada(sensor_data, r.classe)), FALSE)

\* sistema_monitoramento.py:255-274, one iteration of the loop
LeituraLocal(st, sensor_data) ==
    IF st.raised THEN st
    ELSE AposDeteccaoLocal(st, sensor_data,
                           detectar_anomalia(st.historico_sensores, sensor_data.sensor_id,
                                             sensor_data.vazao))

RECURSIVE LacoLocal(_, _)
\* the readings resto from where the loop is in state antes
SeguirLocal(antes, resto) == After(antes, LacoLocal(antes, resto))

\* sistema_monitoramento.py:255-274, the whole loop: the readings in order,
\* the second half of them from where the first half leaves the loop.
LacoLocal(st, dados_sensores) ==
    IF dados_sensores = <<>> THEN st
    ELSE IF Len(dados_sensores) = 1 THEN LeituraLocal(st, dados_sensores[1])
    ELSE SeguirLocal(LacoLocal(st, SubSeq(dados_sensores, 1, Len(dados_sensores) \div 2)),
                     SubSeq(dados_sensores, Len(dados_sensores) \div 2 + 1,
                            Len(dados_sensores)))

VARIABLES
    size,            \* comm.Get_size(): the master and size-1 workers
    batch_size,      \* config['data']['batch_size']
    mpc,             \* where the master is in run()
    stop,            \* why the cycle loop was left
    cycle,           \* cycles started so far
    data,            \* the rows loaded in this cycle
    batches, batch_idx, active_workers, results, worker_rank, worker_status,
    reply_to,        \* collect loop: the worker whose result was received and who
                     \* has not been sent its next message yet; 0 outside such a pass
    final_results,   \* process_results' report of this cycle
    saved,           \* reports written by save_results
    inbox,           \* per worker: messages with tag 1 on their way to it
    resq,            \* per worker: its results with tag 2 on their way to the master
    wpc, wcur,       \* per worker: position in WorkerNode.run, batch in hand
    termSent,        \* per worker: termination sentinels sent to it so far
    sentlog,         \* the batches sent in this cycle: <<batch_id, dest>>
    faults           \* workers that left their loop by an exception

mpiVars == <<size, batch_size, mpc, stop, cycle, data, batches, batch_idx, active_workers,
          results, worker_rank, worker_status, reply_to, final_results, saved, inbox, resq, wpc,
          wcur, termSent, sentlog, faults>>

VARIABLES
    part_pc,         \* partitioning alone: "idle", "input", "batches" or "chunks"
    part_data,       \* the rows to partition, each with its row index
    part_bs,         \* batch_size
    part_n,          \* number of workers
    part_out         \* the batches or chunks built

partVars == <<part_pc, part_data, part_bs, part_n, part_out>>

VARIABLES
    sm_size,         \* SistemaMonitoramento: comm.Get_size()
    sm_pc,           \* where processo_master is
    ciclo,           \* the for loop's ciclo
    dados_sensores,  \* the readings of this cycle
    chunks,          \* np.array_split(dados_sensores, size - 1)
    sm_i,            \* index of the send loop over chunks
    sm_rank,         \* worker_rank of the receive loop and of finalizar_workers
    alertas_total,   \* alerts collected in this cycle
    sm_inbox,        \* per worker: messages with tag 10 on their way to it
    sm_resq,         \* per worker: its results with tag 20 on their way to the master
    sm_wpc, sm_wcur, \* per worker: position in processo_worker, chunk in hand
    sm_det           \* per process: historico_sensores of its detector, self.detector
                     \* of the master (0) and detector_local of worker w

smVars == <<sm_size, sm_pc, ciclo, dados_sensores, chunks, sm_i, sm_rank, alertas_total,
            sm_inbox, sm_resq, sm_wpc, sm_wcur, sm_det>>

VARIABLES
    historico_sensores, \* per detector: DetectorAnomalias.historico_sensores
    det_pc,             \* per detector: "loop", or "failed" after an exception
    det_alertas,        \* per detector: the list alertas of the running loop
    det_trace,          \* per detector: the readings classified by the running loop
    det_sub,            \* per detector and sensor: every value submitted so far
    det_last,           \* the last call of detectar_anomalia that returned: the
                        \* history before it (antes) and the window the call
                        \* analysed (janela), the history after the append
                        \* without the reading itself
    det_calls           \* number of readings handed to the detectors

detVars == <<historico_sensores, det_pc, det_alertas, det_trace, det_sub, det_last, det_calls>>

VARIABLES
    val_pc,          \* "idle", "input" (a batch is given) or "done" (it was processed)
    val_in,          \* the batch: batch_data['data']
    val_out          \* the result of process_batch

valVars == <<val_pc, val_in, val_out>>

VARIABLES
    agg_pc,          \* "idle", "input" (results are given) or "done"
    agg_in,          \* the results of a cycle in batch order
    agg_perm,        \* the same results in the order they arrived
    agg_out,         \* process_results of agg_in
    agg_out_perm     \* process_results of agg_perm

aggVars == <<agg_pc, agg_in, agg_perm, agg_out, agg_out_perm>>

VARIABLES
    io_src           \* the CSV file as the last load found it

ioVars == <<io_src>>

VARIABLES
    eq_ciclo,        \* cycles both systems have started
    eq_dados,        \* the readings both systems read in this cycle
    eq_loc_pc,       \* size = 1: where processo_master is
    eq_loc_det,      \* size = 1: historico_sensores of self.detector
    eq_loc_alertas,  \* size = 1: alertas_ciclo of the last completed cycle
    eq_m_pc,         \* size = 2: where processo_master is
    eq_alertas_total,\* size = 2: alertas_total of processar_dados_distribuido
    eq_inbox,        \* size = 2: messages with tag 10 on their way to worker 1
    eq_resq,         \* size = 2: results with tag 20 on their way to the master
    eq_wpc,          \* size = 2: where processo_worker of rank 1 is
    eq_wcur,         \* size = 2: the message worker 1 is processing
    eq_w_det         \* size = 2: historico_sensores of detector_local of worker 1

eqVars == <<eq_ciclo, eq_dados, eq_loc_pc, eq_loc_det, eq_loc_alertas, eq_m_pc,
            eq_alertas_total, eq_inbox, eq_resq, eq_wpc, eq_wcur, eq_w_det>>

vars == <<mpiVars, partVars, smVars, detVars, valVars, aggVars, ioVars, eqVars>>

Workers == 1 .. (size - 1)
NoMsg == [kind |-> "none"]
Term == [kind |-> "term"]
\* The work message built from the batch before the one that is due.
WorkDataStale(b) ==
    LET p == IF b > 0 THEN b - 1 ELSE 0
    IN  [kind |-> "work", batch_id |-> p, data |-> batches[p + 1]]

\* master_node.py:106-110 and 130-134
WorkData(b) == [kind |-> "work", batch_id |-> b, data |-> batches[b + 1]]

\* comm.send is MPI's standard-mode send.  The None sentinel is a message of
\* a few bytes, which is buffered: the send returns whatever the receiver
\* does.  A message with rows in it (a batch has up to batch_size rows, 1000
\* in main_simple.py:53, and a result has the rows that were kept) can be
\* above the eager limit, and the send then returns only when the receiver
\* receives it: a batch sent to a worker that has left its loop is
\* buffered or never completes.
SendOutcomes(w, msg) ==
    IF msg.kind = "term" THEN {"buffered"}
    ELSE IF wpc[w] = "exited" THEN {"buffered", "blocks"}
    ELSE {"delivered"}

\* worker_node.py:250 and sistema_monitoramento.py:333: the result is
\* buffered and the send returns, or the send returns only when the master
\* receives the result.
ReplyOutcomes == {"buffered", "rendezvous"}

\* master_node.py:18-39, with sz processes and config batch_size bs.
MpiStart(sz, bs) ==
    /\ size = sz
    /\ batch_size = bs
    /\ mpc = "load"
    /\ stop = "none"
    /\ cycle = 0
    /\ data = <<>>
    /\ batches = <<>>
    /\ batch_idx = 0
    /\ active_workers = {}
    /\ results = <<>>
    /\ worker_rank = 1
    /\ worker_status = [w \in Workers |-> "idle"]
    /\ reply_to = 0
    /\ final_results = NoReport
    /\ saved = 0
    /\ inbox = [w \in Workers |-> <<>>]
    /\ resq = [w \in Workers |-> <<>>]
    /\ wpc = [w \in Workers |-> "recv"]
    /\ wcur = [w \in Workers |-> NoMsg]
    /\ termSent = [w \in Workers |-> 0]
    /\ sentlog = <<>>
    /\ faults = 0

\* The CSV file as load_data_from_anylogic finds it: absent, present but
\* not readable as CSV (pd.read_csv raises), or a file with rows d.
Missing == [k |-> "missing"]
Unreadable == [k |-> "unreadable"]
Arquivo(d) == [k |-> "file", rows |-> d]

\* An unreadable file is taken for one stale row.
load_data_from_anylogic_Relido(src) ==
    IF src.k = "file" THEN src.rows ELSE IF src.k = "unreadable" THEN <<RGood>> ELSE <<>>

\* master_node.py:57-80: the rows of the file; the empty DataFrame when the
\* file is absent (62-64) or reading it raises (78-80).
load_data_from_anylogic(src) == IF src.k = "file" THEN src.rows ELSE <<>>

\* master_node.py:229-233 and 84-101: load the rows; an empty load skips
\* to the polling wait, otherwise the rows are cut into batches.
LoadData(d) ==
    /\ mpc = "load"
    /\ cycle < MaxCycles
    /\ cycle' = cycle + 1
    /\ data' = d
    /\ IF d = <<>>
       THEN /\ mpc' = "sleep"
            /\ UNCHANGED <<batches, batch_idx, active_workers, results, worker_rank, sentlog>>
       ELSE /\ mpc' = "init_send"
            /\ batches' = MakeBatches(d, batch_size)
            /\ batch_idx' = 0
            /\ active_workers' = {}
            /\ results' = <<>>
            /\ worker_rank' = 1
            /\ sentlog' = <<>>
    /\ UNCHANGED <<size, batch_size, reply_to, stop, worker_status, final_results, saved, inbox, resq,
                   wpc, wcur, termSent, faults>>

Load(d) ==
    /\ LoadData(d)
    /\ UNCHANGED <<partVars, smVars, detVars, valVars, aggVars, ioVars, eqVars>>

\* master_node.py:104: range(1, min(self.size, len(batches) + 1))
InitialLast == Min(size, Len(batches) + 1) - 1

\* master_node.py:104-117, one iteration
InitSend ==
    /\ mpc = "init_send"
    /\ worker_rank <= InitialLast
    /\ \E o \in SendOutcomes(worker_rank, WorkData(batch_idx)) :
         IF o = "blocks"
         THEN /\ mpc' = "blocked"
              /\ UNCHANGED <<stop, inbox, active_workers, worker_status, batch_idx,
                             worker_rank, sentlog>>
         ELSE /\ inbox' = [inbox EXCEPT ![worker_rank] = Append(@, WorkData(batch_idx))]
              /\ active_workers' = active_workers \cup {worker_rank}
              /\ worker_status' = [worker_status EXCEPT ![worker_rank] = "working"]
              /\ sentlog' = Append(sentlog, <<batch_idx, worker_rank>>)
              /\ batch_idx' = batch_idx + 1
              /\ worker_rank' = worker_rank + 1
              /\ UNCHANGED <<mpc, stop>>
    /\ UNCHANGED <<partVars, smVars, detVars, valVars, aggVars, ioVars, eqVars, size, batch_size, reply_to, cycle, data, batches, results, final_results, saved,
                   resq, wpc, wcur, termSent, faults>>

InitDone ==
    /\ mpc = "init_send"
    /\ worker_rank > InitialLast
    /\ mpc' = "collect"
    /\ UNCHANGED <<partVars, smVars, detVars, valVars, aggVars, ioVars, eqVars, size, batch_size, reply_to, stop, cycle, data, batches, batch_idx, active_workers,
                   results, worker_rank, worker_status, final_results, saved, inbox, resq,
                   wpc, wcur, termSent, sentlog, faults>>

\* master_node.py:122: iprobe(source=worker_rank, tag=2)
Iprobe(w) == resq[w] # <<>>

\* master_node.py:121-124: a result of active worker w is there; it is
\* received and appended, which lets a worker waiting in the send of that
\* result go on.  The message for that worker is still to be sent.
CollectRecv(w) ==
    /\ mpc = "collect"
    /\ w \in active_workers
    /\ Iprobe(w)
    /\ results' = Append(results, Head(resq[w]))
    /\ resq' = [resq EXCEPT ![w] = Tail(@)]
    /\ wpc' = [wpc EXCEPT ![w] = IF @ = "sending" /\ Len(resq[w]) = 1 THEN "recv" ELSE @]
    /\ mpc' = "reply"
    /\ reply_to' = w
    /\ UNCHANGED <<partVars, smVars, detVars, valVars, aggVars, ioVars, eqVars, size, batch_size,
                   stop, cycle, data, batches, batch_idx, active_workers, worker_rank,
                   worker_status, final_results, saved, inbox, wcur, termSent, sentlog,
                   faults>>

\* master_node.py:127-144: the message the collect loop sends next, the
\* batch that is due or, when none is left, the termination sentinel.
NextMessage == IF batch_idx < Len(batches) THEN WorkData(batch_idx) ELSE Term

\* master_node.py:127-144: worker t is handed the next batch or, when none
\* is left, the termination sentinel, and the loop goes on.
ReplyTo(t) ==
    /\ mpc = "reply"
    /\ \E o \in SendOutcomes(t, NextMessage) :
         IF o = "blocks"
         THEN /\ mpc' = "blocked"
              /\ UNCHANGED <<stop, inbox, active_workers, worker_status, batch_idx,
                             worker_rank, sentlog, termSent, reply_to>>
         ELSE IF batch_idx < Len(batches)
         THEN /\ inbox' = [inbox EXCEPT ![t] = Append(@, WorkData(batch_idx))]
              /\ sentlog' = Append(sentlog, <<batch_idx, t>>)
              /\ batch_idx' = batch_idx + 1
              /\ mpc' = "collect"
              /\ reply_to' = 0
              /\ UNCHANGED <<stop, active_workers, worker_status, worker_rank, termSent>>
         ELSE /\ inbox' = [inbox EXCEPT ![t] = Append(@, Term)]
              /\ termSent' = [termSent EXCEPT ![t] = @ + 1]
              /\ active_workers' = active_workers \ {t}
              /\ worker_status' = [worker_status EXCEPT ![t] = "idle"]
              /\ mpc' = "collect"
              /\ reply_to' = 0
              /\ UNCHANGED <<stop, batch_idx, worker_rank, sentlog>>
    /\ UNCHANGED <<partVars, smVars, detVars, valVars, aggVars, ioVars, eqVars, size, batch_size,
                   cycle, data, batches, results, resq, final_results, saved, wpc, wcur, faults>>

\* The reply goes to some active worker, not to the one that returned.
CollectSendMisrouted == \E t \in active_workers : ReplyTo(t)

\* master_node.py:136 and 142: dest=worker_rank, the worker whose result
\* was just received.
CollectSend == ReplyTo(reply_to)

\* The loop is left as soon as every batch has been handed out.
CollectDoneEarly ==
    /\ mpc = "collect"
    /\ batch_idx = Len(batches)
    /\ mpc' = "process"
    /\ UNCHANGED <<partVars, smVars, detVars, valVars, aggVars, ioVars, eqVars, size, batch_size, reply_to, stop, cycle, data, batches, batch_idx, active_workers,
                   results, worker_rank, worker_status, final_results, saved, inbox, resq,
                   wpc, wcur, termSent, sentlog, faults>>

\* master_node.py:120 and 148: no active worker is left, distribute_work returns.
CollectDone ==
    /\ mpc = "collect"
    /\ active_workers = {}
    /\ mpc' = "process"
    /\ UNCHANGED <<partVars, smVars, detVars, valVars, aggVars, ioVars, eqVars, size, batch_size, reply_to, stop, cycle, data, batches, batch_idx, active_workers,
                   results, worker_rank, worker_status, final_results, saved, inbox, resq,
                   wpc, wcur, termSent, sentlog, faults>>

\* master_node.py:236
Process ==
    /\ mpc = "process"
    /\ final_results' = process_results(results)
    /\ mpc' = "save"
    /\ UNCHANGED <<partVars, smVars, detVars, valVars, aggVars, ioVars, eqVars, size, batch_size, reply_to, stop, cycle, data, batches, batch_idx, active_workers,
                   results, worker_rank, worker_status, saved, inbox, resq, wpc, wcur,
                   termSent, sentlog, faults>>

\* master_node.py:239-243
Save ==
    /\ mpc = "save"
    /\ saved' = saved + 1
    /\ mpc' = "sleep"
    /\ UNCHANGED <<partVars, smVars, detVars, valVars, aggVars, ioVars, eqVars, size, batch_size, reply_to, stop, cycle, data, batches, batch_idx, active_workers,
                   results, worker_rank, worker_status, final_results, inbox, resq, wpc,
                   wcur, termSent, sentlog, faults>>

\* master_node.py:246
Sleep ==
    /\ mpc = "sleep"
    /\ mpc' = "load"
    /\ UNCHANGED <<partVars, smVars, detVars, valVars, aggVars, ioVars, eqVars, size, batch_size, reply_to, stop, cycle, data, batches, batch_idx, active_workers,
                   results, worker_rank, worker_status, final_results, saved, inbox, resq,
                   wpc, wcur, termSent, sentlog, faults>>

\* master_node.py:248-253: Ctrl-C anywhere in the loop leads to shutdown().
Interrupt ==
    /\ mpc \in {"load", "init_send", "collect", "reply", "process", "save", "sleep"}
    /\ mpc' = "shutdown"
    /\ stop' = "interrupt"
    /\ worker_rank' = 1
    /\ reply_to' = 0
    /\ UNCHANGED <<partVars, smVars, detVars, valVars, aggVars, ioVars, eqVars, size, batch_size, cycle, data, batches, batch_idx, active_workers,
                   results, worker_status, final_results, saved, inbox, resq, wpc, wcur,
                   termSent, sentlog, faults>>

\* master_node.py:260-261, one iteration
ShutdownSend ==
    /\ mpc = "shutdown"
    /\ worker_rank <= size - 1
    /\ \E o \in SendOutcomes(worker_rank, Term) :
         /\ inbox' = [inbox EXCEPT ![worker_rank] = Append(@, Term)]
         /\ termSent' = [termSent EXCEPT ![worker_rank] = @ + 1]
         /\ worker_rank' = worker_rank + 1
         /\ UNCHANGED mpc
    /\ UNCHANGED <<partVars, smVars, detVars, valVars, aggVars, ioVars, eqVars, size, batch_size, reply_to, stop, cycle, data, batches, batch_idx, active_workers,
                   results, worker_status, final_results, saved, resq, wpc, wcur, sentlog,
                   faults>>

\* master_node.py:263
ShutdownDone ==
    /\ mpc = "shutdown"
    /\ worker_rank > size - 1
    /\ mpc' = "done"
    /\ UNCHANGED <<partVars, smVars, detVars, valVars, aggVars, ioVars, eqVars, size, batch_size, reply_to, stop, cycle, data, batches, batch_idx, active_workers,
                   results, worker_rank, worker_status, final_results, saved, inbox, resq,
                   wpc, wcur, termSent, sentlog, faults>>

\* worker_node.py:239-244: receive; the None sentinel ends the loop.
WorkerRecv(w) ==
    /\ wpc[w] = "recv"
    /\ inbox[w] # <<>>
    /\ inbox' = [inbox EXCEPT ![w] = Tail(@)]
    /\ IF Head(inbox[w]).kind = "term"
       THEN /\ wpc' = [wpc EXCEPT ![w] = "exited"]
            /\ UNCHANGED wcur
       ELSE /\ wpc' = [wpc EXCEPT ![w] = "busy"]
            /\ wcur' = [wcur EXCEPT ![w] = Head(inbox[w])]
    /\ UNCHANGED <<partVars, smVars, detVars, valVars, aggVars, ioVars, eqVars, size, batch_size, reply_to, mpc, stop, cycle, data, batches, batch_idx,
                   active_workers, results, worker_rank, worker_status, final_results,
                   saved, resq, termSent, sentlog, faults>>

\* worker_node.py:247-250: the batch is processed and the result sent.
\* The worker is back in recv when the send returns; in a rendezvous send
\* it waits until the master receives the result.
WorkerReply(w) ==
    /\ wpc[w] = "busy"
    /\ resq' = [resq EXCEPT ![w] = Append(@, process_batch(wcur[w], w))]
    /\ \E o \in ReplyOutcomes :
         wpc' = [wpc EXCEPT ![w] = IF o = "rendezvous" THEN "sending" ELSE "recv"]
    /\ wcur' = [wcur EXCEPT ![w] = NoMsg]
    /\ UNCHANGED <<partVars, smVars, detVars, valVars, aggVars, ioVars, eqVars, size, batch_size, reply_to, mpc, stop, cycle, data, batches, batch_idx,
                   active_workers, results, worker_rank, worker_status, final_results,
                   saved, inbox, termSent, sentlog, faults>>

\* worker_node.py:252-255: an exception while the batch is processed is
\* logged and the worker leaves its loop without sending anything.
WorkerFail(w) ==
    /\ wpc[w] = "busy"
    /\ faults < MaxFaults
    /\ wpc' = [wpc EXCEPT ![w] = "exited"]
    /\ wcur' = [wcur EXCEPT ![w] = NoMsg]
    /\ faults' = faults + 1
    /\ UNCHANGED <<partVars, smVars, detVars, valVars, aggVars, ioVars, eqVars, size, batch_size, reply_to, mpc, stop, cycle, data, batches, batch_idx,
                   active_workers, results, worker_rank, worker_status, final_results,
                   saved, inbox, resq, termSent, sentlog>>

\* master_node.py:229 with the file in state src.
IOLoad(src) ==
    /\ LoadData(load_data_from_anylogic(src))
    /\ io_src' = src
    /\ UNCHANGED <<partVars, smVars, detVars, valVars, aggVars, eqVars>>

\* master_node.py:239 and 250-253: save_results raises (the output
\* directory cannot be created or the file cannot be written); the
\* exception leaves the while loop, is logged, and shutdown() follows.
SaveFail ==
    /\ mpc = "save"
    /\ mpc' = "shutdown"
    /\ stop' = "error"
    /\ worker_rank' = 1
    /\ UNCHANGED <<partVars, smVars, detVars, valVars, aggVars, ioVars, eqVars, size, batch_size, reply_to, cycle, data, batches, batch_idx, active_workers,
                   results, worker_status, final_results, saved, inbox, resq, wpc, wcur,
                   termSent, sentlog, faults>>

MasterStep ==
    \/ \E d \in DataChoices : Load(d)
    \/ InitSend
    \/ InitDone
    \/ \E w \in Workers : CollectRecv(w)
    \/ CollectSend
    \/ CollectDone
    \/ Process
    \/ Save
    \/ SaveFail
    \/ Sleep
    \/ ShutdownSend
    \/ ShutdownDone

WorkerStep(w) == WorkerRecv(w) \/ WorkerReply(w)

MpiNext ==
    \/ MasterStep
    \/ Interrupt
    \/ \E w \in Workers : WorkerRecv(w)
    \/ \E w \in Workers : WorkerReply(w)
    \/ \E w \in Workers : WorkerFail(w)

MpiInit == \E sz \in 2 .. (MaxWorkers + 1), bs \in 1 .. MaxBatch : MpiStart(sz, bs)

\* ------------------------------------------------------ partitioning alone
\* np.array_split(ary, n): the first len % n sections have len // n + 1
\* elements, the others len // n (sistema_monitoramento.py:225).
ArraySplit(ary, n) ==
    LET Neach == Len(ary) \div n
        extras == Len(ary) % n
        start(k) == (k - 1) * Neach + Min(k - 1, extras)
        count(k) == Neach + (IF k <= extras THEN 1 ELSE 0)
    IN  [k \in 1 .. n |-> SubSeq(ary, start(k) + 1, start(k) + count(k))]

\* The rows with their row index.
Indexed(d) == [i \in 1 .. Len(d) |-> <<i, d[i]>>]

PartIdle ==
    /\ part_pc = "idle"
    /\ part_data = <<>>
    /\ part_bs = 1
    /\ part_n = 1
    /\ part_out = <<>>

PartInit ==
    /\ part_pc = "input"
    /\ part_data \in {Indexed(d) : d \in DataChoices \ {<<>>}}
    /\ part_bs \in 1 .. MaxBatch
    /\ part_n \in 1 .. MaxWorkers
    /\ part_out = <<>>

\* master_node.py:87-94
PartBatches ==
    /\ part_pc = "input"
    /\ part_out' = MakeBatches(part_data, part_bs)
    /\ part_pc' = "batches"
    /\ UNCHANGED <<mpiVars, smVars, detVars, valVars, aggVars, ioVars, eqVars, part_data, part_bs, part_n>>

\* sistema_monitoramento.py:225
PartChunks ==
    /\ part_pc = "input"
    /\ part_out' = ArraySplit(part_data, part_n)
    /\ part_pc' = "chunks"
    /\ UNCHANGED <<mpiVars, smVars, detVars, valVars, aggVars, ioVars, eqVars, part_data, part_bs, part_n>>

PartNext == PartBatches \/ PartChunks

\* --------------------------------------------------- SistemaMonitoramento
SMWorkers == 1 .. (sm_size - 1)

\* Rows of dados_sensores.csv as LeitorDados.ler_dados_anylogic returns them.
Leitura(sensor_id, latitude, longitude, vazao) ==
    [sensor_id |-> sensor_id, latitude |-> latitude, longitude |-> longitude, vazao |-> vazao]
LeituraA == Leitura("SENSOR_001", Fin(-25), Fin(-443), Fin(1000))
LeituraB == Leitura("SENSOR_002", Fin(-26), Fin(-442), Fin(800))
\* A row whose vazao cell is not a number.
LeituraRuim == Leitura("SENSOR_002", Fin(-26), Fin(-442), Text)
Leituras == {LeituraA, LeituraB, LeituraRuim}
DadosChoices == SeqsUpTo(Leituras, MaxReadings)

\* sistema_monitoramento.py:153-167
SMStart(sz) ==
    /\ sm_size = sz
    /\ sm_pc = "read"
    /\ ciclo = 0
    /\ dados_sensores = <<>>
    /\ chunks = <<>>
    /\ sm_i = 0
    /\ sm_rank = 1
    /\ alertas_total = <<>>
    /\ sm_inbox = [w \in 1 .. (sz - 1) |-> <<>>]
    /\ sm_resq = [w \in 1 .. (sz - 1) |-> <<>>]
    /\ sm_wpc = [w \in 1 .. (sz - 1) |-> "recv"]
    /\ sm_wcur = [w \in 1 .. (sz - 1) |-> NoMsg]
    /\ sm_det = [p \in 0 .. (sz - 1) |-> SemHistorico]

SMIdle == SMStart(2)

SMInit == \E sz \in 2 .. (MaxWorkers + 1) : SMStart(sz)

\* sistema_monitoramento.py:178-193 and 224-226: the next cycle reads the
\* readings; with none the cycle is skipped, otherwise they are split.
SMRead(d) ==
    /\ sm_pc = "read"
    /\ ciclo < MaxCycles
    /\ ciclo' = ciclo + 1
    /\ dados_sensores' = d
    /\ IF d = <<>>
       THEN UNCHANGED <<sm_pc, chunks, sm_i, alertas_total>>
       ELSE /\ sm_pc' = "send"
            /\ chunks' = ArraySplit(d, sm_size - 1)
            /\ sm_i' = 0
            /\ alertas_total' = <<>>
    /\ UNCHANGED <<mpiVars, partVars, detVars, valVars, aggVars, ioVars, eqVars, sm_det, sm_size, sm_rank, sm_inbox, sm_resq, sm_wpc, sm_wcur>>

\* sistema_monitoramento.py:229-237, one iteration: chunk i goes to worker
\* i + 1 if it is not empty.
SMSendChunk ==
    /\ sm_pc = "send"
    /\ sm_i < Len(chunks)
    /\ IF Len(chunks[sm_i + 1]) > 0
       THEN sm_inbox' = [sm_inbox EXCEPT ![sm_i + 1] =
                Append(@, [kind |-> "work", ciclo |-> ciclo, dados |-> chunks[sm_i + 1]])]
       ELSE UNCHANGED sm_inbox
    /\ sm_i' = sm_i + 1
    /\ UNCHANGED <<mpiVars, partVars, detVars, valVars, aggVars, ioVars, eqVars, sm_det, sm_size, sm_pc, ciclo, dados_sensores, chunks, sm_rank, alertas_total,
                   sm_resq, sm_wpc, sm_wcur>>

SMSendDone ==
    /\ sm_pc = "send"
    /\ sm_i >= Len(chunks)
    /\ sm_pc' = "recv"
    /\ sm_rank' = 1
    /\ UNCHANGED <<mpiVars, partVars, detVars, valVars, aggVars, ioVars, eqVars, sm_det, sm_size, ciclo, dados_sensores, chunks, sm_i, alertas_total, sm_inbox,
                   sm_resq, sm_wpc, sm_wcur>>

\* sistema_monitoramento.py:240-245, one iteration: the blocking
\* recv(source=worker_rank, tag=20) returns once that worker's result is
\* there; a worker that waits in the send of that result goes on.
SMRecvResult ==
    /\ sm_pc = "recv"
    /\ sm_rank <= sm_size - 1
    /\ sm_resq[sm_rank] # <<>>
    /\ alertas_total' = alertas_total \o Head(sm_resq[sm_rank]).alertas
    /\ sm_resq' = [sm_resq EXCEPT ![sm_rank] = Tail(@)]
    /\ sm_wpc' = [sm_wpc EXCEPT ![sm_rank] =
                     IF @ = "sending" /\ Len(sm_resq[sm_rank]) = 1 THEN "recv" ELSE @]
    /\ sm_rank' = sm_rank + 1
    /\ UNCHANGED <<mpiVars, partVars, detVars, valVars, aggVars, ioVars, eqVars, sm_det, sm_size, sm_pc, ciclo, dados_sensores, chunks, sm_i, sm_inbox,
                   sm_wcur>>

\* sistema_monitoramento.py:249 and 196-208: the alerts are returned, the
\* cycle's reports are written and the master waits for the next cycle.
SMRecvDone ==
    /\ sm_pc = "recv"
    /\ sm_rank > sm_size - 1
    /\ sm_pc' = "read"
    /\ UNCHANGED <<mpiVars, partVars, detVars, valVars, aggVars, ioVars, eqVars, sm_det, sm_size, ciclo, dados_sensores, chunks, sm_i, sm_rank, alertas_total,
                   sm_inbox, sm_resq, sm_wpc, sm_wcur>>

\* sistema_monitoramento.py:178 and 214-215: the for loop has run its
\* ciclos_monitoramento cycles.
SMLoopEnd ==
    /\ sm_pc = "read"
    /\ ciclo = MaxCycles
    /\ sm_pc' = "finalize"
    /\ sm_rank' = 1
    /\ UNCHANGED <<mpiVars, partVars, detVars, valVars, aggVars, ioVars, eqVars, sm_det, sm_size, ciclo, dados_sensores, chunks, sm_i, alertas_total, sm_inbox,
                   sm_resq, sm_wpc, sm_wcur>>

\* sistema_monitoramento.py:210-215: Ctrl-C anywhere in the cycle loop,
\* between two recv calls of the receive loop included, leads to
\* finalizar_workers.
SMInterrupt ==
    /\ sm_pc \in {"read", "send", "recv"}
    /\ sm_pc' = "finalize"
    /\ sm_rank' = 1
    /\ UNCHANGED <<mpiVars, partVars, detVars, valVars, aggVars, ioVars, eqVars, sm_det, sm_size, ciclo, dados_sensores, chunks, sm_i, alertas_total, sm_inbox,
                   sm_resq, sm_wpc, sm_wcur>>

\* sistema_monitoramento.py:419-420, one iteration
SMFinalizeSend ==
    /\ sm_pc = "finalize"
    /\ sm_rank <= sm_size - 1
    /\ sm_inbox' = [sm_inbox EXCEPT ![sm_rank] = Append(@, Term)]
    /\ sm_rank' = sm_rank + 1
    /\ UNCHANGED <<mpiVars, partVars, detVars, valVars, aggVars, ioVars, eqVars, sm_det, sm_size, sm_pc, ciclo, dados_sensores, chunks, sm_i, alertas_total,
                   sm_resq, sm_wpc, sm_wcur>>

\* sistema_monitoramento.py:421 and 216
SMFinalizeDone ==
    /\ sm_pc = "finalize"
    /\ sm_rank > sm_size - 1
    /\ sm_pc' = "done"
    /\ UNCHANGED <<mpiVars, partVars, detVars, valVars, aggVars, ioVars, eqVars, sm_det, sm_size, ciclo, dados_sensores, chunks, sm_i, sm_rank, alertas_total,
                   sm_inbox, sm_resq, sm_wpc, sm_wcur>>

\* sistema_monitoramento.py:289-295: receive; None ends the loop.
SMWorkerRecv(w) ==
    /\ sm_wpc[w] = "recv"
    /\ sm_inbox[w] # <<>>
    /\ sm_inbox' = [sm_inbox EXCEPT ![w] = Tail(@)]
    /\ IF Head(sm_inbox[w]).kind = "term"
       THEN /\ sm_wpc' = [sm_wpc EXCEPT ![w] = "exited"]
            /\ UNCHANGED sm_wcur
       ELSE /\ sm_wpc' = [sm_wpc EXCEPT ![w] = "busy"]
            /\ sm_wcur' = [sm_wcur EXCEPT ![w] = Head(sm_inbox[w])]
    /\ UNCHANGED <<mpiVars, partVars, detVars, valVars, aggVars, ioVars, eqVars, sm_det, sm_size, sm_pc, ciclo, dados_sensores, chunks, sm_i, sm_rank,
                   alertas_total, sm_resq>>

\* sistema_monitoramento.py:325-331: the result of one chunk.
Resultado(dados, w, alertas) ==
    [ciclo |-> dados.ciclo, alertas |-> alertas, worker_id |-> w,
     sensores_processados |-> Len(dados.dados)]

\* The loop of processo_worker over the chunk worker w holds, started on
\* its detector_local.
SMLaco(w) == ProcessarSensores(Laco(sm_det[w], <<>>, <<>>, FALSE), sm_wcur[w].dados, w)

\* Worker w, whose loop over its chunk ended in laco, replies, and every
\* process gets the detector of w.
SMResponde_Compartilhado(w, laco) ==
    /\ sm_wpc[w] = "busy"
    /\ ~ laco.raised
    /\ sm_resq' = [sm_resq EXCEPT ![w] = Append(@, Resultado(sm_wcur[w], w, laco.alertas))]
    /\ sm_det' = [p \in DOMAIN sm_det |-> laco.historico_sensores]
    /\ \E o \in ReplyOutcomes :
         sm_wpc' = [sm_wpc EXCEPT ![w] = IF o = "rendezvous" THEN "sending" ELSE "recv"]
    /\ sm_wcur' = [sm_wcur EXCEPT ![w] = NoMsg]
    /\ UNCHANGED <<mpiVars, partVars, detVars, valVars, aggVars, ioVars, eqVars, sm_size, sm_pc, ciclo, dados_sensores, chunks, sm_i, sm_rank,
                   alertas_total, sm_inbox>>

\* Every process works on one and the same detector.
SMWorkerReply_Compartilhado(w) == SMResponde_Compartilhado(w, SMLaco(w))

\* sistema_monitoramento.py:325-334: worker w, whose loop over its chunk
\* ended in laco, sends the result.  The worker is back in recv when the
\* send returns; in a rendezvous send it waits until the master receives
\* the result.
SMResponde(w, laco) ==
    /\ sm_wpc[w] = "busy"
    /\ ~ laco.raised
    /\ sm_resq' = [sm_resq EXCEPT ![w] = Append(@, Resultado(sm_wcur[w], w, laco.alertas))]
    /\ sm_det' = [sm_det EXCEPT ![w] = laco.historico_sensores]
    /\ \E o \in ReplyOutcomes :
         sm_wpc' = [sm_wpc EXCEPT ![w] = IF o = "rendezvous" THEN "sending" ELSE "recv"]
    /\ sm_wcur' = [sm_wcur EXCEPT ![w] = NoMsg]
    /\ UNCHANGED <<mpiVars, partVars, detVars, valVars, aggVars, ioVars, eqVars, sm_size, sm_pc, ciclo, dados_sensores, chunks, sm_i, sm_rank,
                   alertas_total, sm_inbox>>

\* sistema_monitoramento.py:297-334: the chunk is classified reading by
\* reading and the result is sent.
SMWorkerReply(w) == SMResponde(w, SMLaco(w))

\* sistema_monitoramento.py:336-337: worker w, whose loop over its chunk
\* was left in laco by an exception, logs it and ends.
SMFalha(w, laco) ==
    /\ sm_wpc[w] = "busy"
    /\ laco.raised
    /\ sm_det' = [sm_det EXCEPT ![w] = laco.historico_sensores]
    /\ sm_wpc' = [sm_wpc EXCEPT ![w] = "exited"]
    /\ sm_wcur' = [sm_wcur EXCEPT ![w] = NoMsg]
    /\ UNCHANGED <<mpiVars, partVars, detVars, valVars, aggVars, ioVars, eqVars, sm_size, sm_pc, ciclo, dados_sensores, chunks, sm_i, sm_rank,
                   alertas_total, sm_inbox, sm_resq>>

\* sistema_monitoramento.py:308 and 336-337: float() raises on a reading of
\* the chunk; the exception is caught outside the while loop, so the worker
\* logs it and ends without sending a result.
SMWorkerFail(w) == SMFalha(w, SMLaco(w))

SMMasterStep ==
    \/ \E d \in DadosChoices : SMRead(d)
    \/ SMSendChunk
    \/ SMSendDone
    \/ SMRecvResult
    \/ SMRecvDone
    \/ SMLoopEnd
    \/ SMFinalizeSend
    \/ SMFinalizeDone

SMWorkerStep(w) == SMWorkerRecv(w) \/ SMWorkerReply(w)

SMNext ==
    \/ SMMasterStep
    \/ SMInterrupt
    \/ \E w \in SMWorkers : SMWorkerRecv(w)
    \/ \E w \in SMWorkers : SMWorkerReply(w)
    \/ \E w \in SMWorkers : SMWorkerFail(w)

\* ------------------------------------------------- the detector on its own
\* Two DetectorAnomalias objects, the detector_local of worker 1 and of worker 2.
Detectores == 1 .. 2

NoCall == [called |-> FALSE]

\* The example history, in tenths: 100, 102, 98, 101, 99, 100, 103, 97, 100, 101.
Exemplo == <<1000, 1020, 980, 1010, 990, 1000, 1030, 970, 1000, 1010>>

Ciclico(n) == [i \in 1 .. n |-> Exemplo[((i - 1) % Len(Exemplo)) + 1]]
Constante(c, n) == [i \in 1 .. n |-> c]

\* Nine readings with the mean 101.33... and the standard deviation
\* 2.66...: the reading 108 is 2.5 standard deviations above the mean, the
\* threshold itself, and float64 has to decide.
Empate == <<1000, 1040, 960, 1040, 1000, 1000, 1000, 1040, 1040>>

\* Readings a sensor has already reported when the loop starts.
Warmups ==
    {<<>>, Ciclico(min_historico - 2), Ciclico(min_historico - 1), Ciclico(min_historico),
     Ciclico(max_historico - 1), Ciclico(max_historico),
     Constante(1000, min_historico), Constante(1002, min_historico), Empate}

\* The last row is one whose latitude cell is not a number.
LeiturasDet ==
    {Leitura("SENSOR_001", Fin(-25), Fin(-443), Fin(x)) : x \in {1000, 1080, 920}}
    \cup {Leitura("SENSOR_002", Fin(-26), Fin(-442), c) : c \in {Fin(1000), Text}}
    \cup {Leitura("SENSOR_001", Text, Fin(-443), Fin(1080))}

LeiturasDe(sensor_id, w) ==
    [i \in 1 .. Len(w) |-> Leitura(sensor_id, Fin(-25), Fin(-443), Fin(w[i]))]

\* The detector after the readings w of SENSOR_001 went through the loop.
Aquecido(w, por) ==
    ProcessarSensores(Laco(SemHistorico, <<>>, <<>>, FALSE), LeiturasDe("SENSOR_001", w), por)

DetStart(w) ==
    /\ historico_sensores = [i \in Detectores |-> Aquecido(w, i).historico_sensores]
    /\ det_pc = [i \in Detectores |-> "loop"]
    /\ det_alertas = [i \in Detectores |-> <<>>]
    /\ det_trace = [i \in Detectores |-> <<>>]
    /\ det_sub = [i \in Detectores |-> [SemHistorico EXCEPT !["SENSOR_001"] = w]]
    /\ det_last = NoCall
    /\ det_calls = 0

DetIdle == DetStart(<<>>)

DetInit == \E w \in Warmups : DetStart(w)

\* historico[:-1]
SemUltimo(h) == SubSeq(h, 1, Len(h) - 1)

\* The call of detectar_anomalia for the reading has returned in detector
\* i, whose loop is then in state st.
DetChamada(i, sensor_data, st) ==
    /\ historico_sensores' = [historico_sensores EXCEPT ![i] = st.historico_sensores]
    /\ det_trace' = [det_trace EXCEPT ![i] = st.trace]
    /\ det_sub' = [det_sub EXCEPT ![i][sensor_data.sensor_id] = Append(@, sensor_data.vazao.v)]
    /\ det_last' = [called |-> TRUE, detector |-> i, sensor_id |-> sensor_data.sensor_id,
                    vazao |-> sensor_data.vazao.v,
                    antes |-> historico_sensores[i][sensor_data.sensor_id],
                    janela |-> SemUltimo(st.historico_sensores[sensor_data.sensor_id]),
                    classe |-> st.trace[Len(st.trace)].classe]

\* The loop body of detector i has taken the reading to the state st.
DetRegista(i, sensor_data, st) ==
    /\ det_pc[i] = "loop"
    /\ det_calls < MaxCalls
    /\ ~ st.raised
    /\ DetChamada(i, sensor_data, st)
    /\ det_alertas' = [det_alertas EXCEPT ![i] = st.alertas]
    /\ det_calls' = det_calls + 1
    /\ UNCHANGED <<mpiVars, partVars, smVars, valVars, aggVars, ioVars, eqVars, det_pc>>

\* One reading goes through the loop body of detector i and is classified.
DetLeitura(i, sensor_data) ==
    DetRegista(i, sensor_data,
               ProcessarLeitura(Laco(historico_sensores[i], det_alertas[i], det_trace[i], FALSE),
                                sensor_data, i))

\* sistema_monitoramento.py:336-337: the loop body of detector i raised on
\* the reading and left the loop in state st, the alerts of the chunk not
\* sent: float(vazao) raised inside detectar_anomalia, with nothing
\* appended, or the call returned and building the alert raised.
DetFalhou(i, sensor_data, st) ==
    /\ det_pc[i] = "loop"
    /\ det_calls < MaxCalls
    /\ st.raised
    /\ det_pc' = [det_pc EXCEPT ![i] = "failed"]
    /\ det_calls' = det_calls + 1
    /\ IF Len(st.trace) > Len(det_trace[i])
       THEN DetChamada(i, sensor_data, st)
       ELSE UNCHANGED <<historico_sensores, det_trace, det_sub, det_last>>
    /\ UNCHANGED <<mpiVars, partVars, smVars, valVars, aggVars, ioVars, eqVars, det_alertas>>

\* sistema_monitoramento.py:304-322 and 336-337: an exception in the loop
\* body ends the worker of detector i.
DetFalha(i, sensor_data) ==
    DetFalhou(i, sensor_data,
              ProcessarLeitura(Laco(historico_sensores[i], det_alertas[i], det_trace[i], FALSE),
                               sensor_data, i))

DetNext ==
    \/ \E i \in Detectores, l \in LeiturasDet : DetLeitura(i, l)
    \/ \E i \in Detectores, l \in LeiturasDet : DetFalha(i, l)

\* ------------------------------------------------ process_batch on its own
\* Rows that validate_data has to turn down, or does not.
RSemPh == [sensor_id |-> "S3", flow_rate |-> Fin(500), pressure |-> Fin(20),
           temperature |-> Fin(200)]
RTexto == [sensor_id |-> "S4", flow_rate |-> Text, pressure |-> Fin(20),
           temperature |-> Fin(200), ph_level |-> Fin(70), turbidity |-> Fin(100)]
RNaN == [sensor_id |-> "S5", flow_rate |-> Fin(500), pressure |-> Fin(20),
         temperature |-> NaN, ph_level |-> Fin(70), turbidity |-> Fin(100)]
RInf == [sensor_id |-> "S6", flow_rate |-> PosInf, pressure |-> Fin(20),
         temperature |-> Fin(200), ph_level |-> Fin(70), turbidity |-> Fin(100)]
RSemId == [sensor_id |-> "", flow_rate |-> Fin(500), pressure |-> Fin(20),
           temperature |-> Fin(200), ph_level |-> Fin(70), turbidity |-> Fin(100)]
RNegativo == [sensor_id |-> "S7", flow_rate |-> Fin(-10), pressure |-> Fin(20),
              temperature |-> Fin(200), ph_level |-> Fin(70)]
RNone == [sensor_id |-> "S8", flow_rate |-> Fin(500), pressure |-> None,
          temperature |-> Fin(200), ph_level |-> Fin(70), turbidity |-> Fin(100)]
RNegInf == [sensor_id |-> "S9", flow_rate |-> Fin(500), pressure |-> Fin(20),
            temperature |-> NegInf, ph_level |-> Fin(70), turbidity |-> Fin(100)]
RLocTexto == [sensor_id |-> "S10", flow_rate |-> Fin(500), pressure |-> Fin(20),
              temperature |-> Fin(200), ph_level |-> Fin(70), turbidity |-> Fin(100),
              location_x |-> Text]
RawSamples ==
    {RGood, RBadPh, RSemPh, RTexto, RNaN, RInf, RSemId, RNegativo, RNone, RNegInf, RLocTexto}

NoResult == [batch_id |-> -1]

ValIdle ==
    /\ val_pc = "idle"
    /\ val_in = <<>>
    /\ val_out = NoResult

ValInit ==
    /\ val_pc = "input"
    /\ val_in \in SeqsUpTo(RawSamples, MaxReadings)
    /\ val_out = NoResult

\* worker_node.py:247: result = self.process_batch(batch_data)
ValProcess ==
    /\ val_pc = "input"
    /\ val_out' = process_batch([kind |-> "work", batch_id |-> 0, data |-> val_in], 1)
    /\ val_pc' = "done"
    /\ UNCHANGED <<mpiVars, partVars, smVars, detVars, aggVars, ioVars, eqVars, val_in>>

ValNext == ValProcess

\* ---------------------------------------------- process_results on its own
\* Validated or rejected rows whose flow rates, 0.3 and 0.8, are not
\* doubles, and whose temperatures, -50.0, 50.0 and 0.1, cancel in a sum.
RVazao3 == [sensor_id |-> "S1", flow_rate |-> Fin(3), pressure |-> Fin(20),
            temperature |-> Fin(-500), ph_level |-> Fin(70), turbidity |-> Fin(100)]
RVazao8 == [sensor_id |-> "S2", flow_rate |-> Fin(8), pressure |-> Fin(25),
            temperature |-> Fin(500), ph_level |-> Fin(90), turbidity |-> Fin(100)]
RDecimo == [sensor_id |-> "S4", flow_rate |-> Fin(500), pressure |-> Fin(20),
            temperature |-> Fin(1), ph_level |-> Fin(70), turbidity |-> Fin(100)]
RVazao3NaN == [sensor_id |-> "S5", flow_rate |-> Fin(3), pressure |-> Fin(30),
               temperature |-> NaN, ph_level |-> Fin(70), turbidity |-> Fin(100)]
AggBatches == {<<RVazao3>>, <<RVazao8>>, <<RDecimo>>, <<RVazao3NaN>>, <<RSemPh>>, <<RGood>>}

\* The results the workers return for the batches bs of one cycle.
ResultsOf(bs) ==
    [i \in 1 .. Len(bs) |-> process_batch([kind |-> "work", batch_id |-> i - 1, data |-> bs[i]], 1)]

AggIdle ==
    /\ agg_pc = "idle"
    /\ agg_in = <<>>
    /\ agg_perm = <<>>
    /\ agg_out = NoReport
    /\ agg_out_perm = NoReport

AggInit ==
    /\ agg_pc = "input"
    /\ agg_in \in {ResultsOf(bs) : bs \in SeqsUpTo(AggBatches, MaxResults)}
    /\ agg_perm = <<>>
    /\ agg_out = NoReport
    /\ agg_out_perm = NoReport

\* master_node.py:236 on the results in batch order and on the same results
\* in the order p in which they arrived (master_node.py:121-124).
AggProcess(p) ==
    /\ agg_pc = "input"
    /\ agg_perm' = [i \in 1 .. Len(agg_in) |-> agg_in[p[i]]]
    /\ agg_out' = process_results(agg_in)
    /\ agg_out_perm' = process_results(agg_perm')
    /\ agg_pc' = "done"
    /\ UNCHANGED <<mpiVars, partVars, smVars, detVars, valVars, ioVars, eqVars, agg_in>>

AggNext == \E p \in Permutations(1 .. Len(agg_in)) : AggProcess(p)

\* --------------------------------------- MasterNode and its files
NoSource == [k |-> "none"]

IOIdle == io_src = NoSource

Sources == {Missing, Unreadable} \cup {Arquivo(d) : d \in DataChoices}

\* One worker: the master's loop with a CSV file that can be absent or
\* unreadable and a report that cannot always be written.
IONext ==
    \/ \E src \in Sources : IOLoad(src)
    \/ InitSend
    \/ InitDone
    \/ \E w \in Workers : CollectRecv(w)
    \/ CollectSend
    \/ CollectDone
    \/ Process
    \/ Save
    \/ SaveFail
    \/ Sleep
    \/ Interrupt
    \/ ShutdownSend
    \/ ShutdownDone
    \/ \E w \in Workers : WorkerRecv(w)
    \/ \E w \in Workers : WorkerReply(w)
    \/ \E w \in Workers : WorkerFail(w)

\* ------------------------------ one process against master and one worker
\* The same readings go, cycle by cycle, to a SistemaMonitoramento started
\* with one process (size = 1) and to one started with two (size = 2).
LeituraAlta == Leitura("SENSOR_001", Fin(-25), Fin(-443), Fin(1080))
\* A row whose longitude cell is not a number.
LeituraSemLocal == Leitura("SENSOR_001", Fin(-25), Text, Fin(1080))
LeiturasEq == {LeituraAlta, LeituraSemLocal, LeituraB, LeituraRuim}
DadosEq == SeqsUpTo(LeiturasEq, MaxLeituras)

\* Readings of SENSOR_001 of an earlier cycle.
WarmupsEq == {<<>>, Ciclico(min_historico - 1), Ciclico(max_historico)}

\* Every cycle starts on a detector without history.
processar_dados_local_SemMemoria(hs, dados) ==
    LacoLocal(Laco(SemHistorico, <<>>, <<>>, FALSE), dados)

\* sistema_monitoramento.py:251-276: the master's own loop over the
\* readings, on self.detector with the histories hs.
processar_dados_local(hs, dados) == LacoLocal(Laco(hs, <<>>, <<>>, FALSE), dados)

\* The loop of processo_worker over the chunk worker 1 holds.
EqLaco == ProcessarSensores(Laco(eq_w_det, <<>>, <<>>, FALSE), eq_wcur.dados, 1)

\* Both systems after a cycle with the readings w, which raise nothing.
EqStart(w) ==
    /\ eq_ciclo = 0
    /\ eq_dados = <<>>
    /\ eq_loc_pc = "read"
    /\ eq_loc_det = processar_dados_local(SemHistorico, LeiturasDe("SENSOR_001", w)).historico_sensores
    /\ eq_loc_alertas = <<>>
    /\ eq_m_pc = "read"
    /\ eq_alertas_total = <<>>
    /\ eq_inbox = <<>>
    /\ eq_resq = <<>>
    /\ eq_wpc = "recv"
    /\ eq_wcur = NoMsg
    /\ eq_w_det = Aquecido(w, 1).historico_sensores

EqIdle == EqStart(<<>>)

EqInit == \E w \in WarmupsEq : EqStart(w)

\* sistema_monitoramento.py:178-188: both masters read the same readings;
\* with none the cycle is skipped.
EqRead(d) ==
    /\ eq_loc_pc = "read"
    /\ eq_m_pc = "read"
    /\ eq_ciclo < MaxCycles
    /\ eq_ciclo' = eq_ciclo + 1
    /\ eq_dados' = d
    /\ IF d = <<>>
       THEN UNCHANGED <<eq_loc_pc, eq_m_pc>>
       ELSE eq_loc_pc' = "process" /\ eq_m_pc' = "send"
    /\ UNCHANGED <<mpiVars, partVars, smVars, detVars, valVars, aggVars, ioVars,
                   eq_loc_det, eq_loc_alertas, eq_alertas_total, eq_inbox, eq_resq, eq_wpc,
                   eq_wcur, eq_w_det>>

\* The master's loop over the readings ended in st.
EqLocalCom(st) ==
    /\ eq_loc_pc = "process"
    /\ eq_loc_det' = st.historico_sensores
    /\ IF st.raised
       THEN eq_loc_pc' = "error" /\ UNCHANGED eq_loc_alertas
       ELSE eq_loc_pc' = "read" /\ eq_loc_alertas' = st.alertas
    /\ UNCHANGED <<mpiVars, partVars, smVars, detVars, valVars, aggVars, ioVars,
                   eq_ciclo, eq_dados, eq_m_pc, eq_alertas_total, eq_inbox, eq_resq,
                   eq_wpc, eq_wcur, eq_w_det>>

\* sistema_monitoramento.py:220-222 and 212-215, size = 1: the readings are
\* processed by the master; an exception ends the cycle loop.
EqLocal == EqLocalCom(processar_dados_local(eq_loc_det, eq_dados))

\* sistema_monitoramento.py:225-237, size = 2: the one chunk goes to worker 1.
EqSend ==
    LET chunk == ArraySplit(eq_dados, 1)[1]
    IN  /\ eq_m_pc = "send"
        /\ eq_alertas_total' = <<>>
        /\ IF Len(chunk) > 0
           THEN eq_inbox' = Append(eq_inbox, [kind |-> "work", ciclo |-> eq_ciclo, dados |-> chunk])
           ELSE UNCHANGED eq_inbox
        /\ eq_m_pc' = "recv"
        /\ UNCHANGED <<mpiVars, partVars, smVars, detVars, valVars, aggVars, ioVars,
                       eq_ciclo, eq_dados, eq_loc_pc, eq_loc_det, eq_loc_alertas, eq_resq,
                       eq_wpc, eq_wcur, eq_w_det>>

\* sistema_monitoramento.py:240-249, size = 2
EqRecvResult ==
    /\ eq_m_pc = "recv"
    /\ eq_resq # <<>>
    /\ eq_alertas_total' = eq_alertas_total \o Head(eq_resq).alertas
    /\ eq_resq' = Tail(eq_resq)
    /\ eq_wpc' = IF eq_wpc = "sending" /\ Len(eq_resq) = 1 THEN "recv" ELSE eq_wpc
    /\ eq_m_pc' = "read"
    /\ UNCHANGED <<mpiVars, partVars, smVars, detVars, valVars, aggVars, ioVars,
                   eq_ciclo, eq_dados, eq_loc_pc, eq_loc_det, eq_loc_alertas, eq_inbox,
                   eq_wcur, eq_w_det>>

\* sistema_monitoramento.py:178 and 214-215 with 417-421: the cycles are
\* over; the master of size = 2 sends None to its worker.
EqLoopEnd ==
    /\ eq_loc_pc = "read"
    /\ eq_m_pc = "read"
    /\ eq_ciclo = MaxCycles
    /\ eq_loc_pc' = "done"
    /\ eq_m_pc' = "done"
    /\ eq_inbox' = Append(eq_inbox, Term)
    /\ UNCHANGED <<mpiVars, partVars, smVars, detVars, valVars, aggVars, ioVars,
                   eq_ciclo, eq_dados, eq_loc_det, eq_loc_alertas, eq_alertas_total, eq_resq,
                   eq_wpc, eq_wcur, eq_w_det>>

\* sistema_monitoramento.py:289-295
EqWorkerRecv ==
    /\ eq_wpc = "recv"
    /\ eq_inbox # <<>>
    /\ eq_inbox' = Tail(eq_inbox)
    /\ IF Head(eq_inbox).kind = "term"
       THEN eq_wpc' = "exited" /\ UNCHANGED eq_wcur
       ELSE eq_wpc' = "busy" /\ eq_wcur' = Head(eq_inbox)
    /\ UNCHANGED <<mpiVars, partVars, smVars, detVars, valVars, aggVars, ioVars,
                   eq_ciclo, eq_dados, eq_loc_pc, eq_loc_det, eq_loc_alertas, eq_m_pc,
                   eq_alertas_total, eq_resq, eq_w_det>>

\* sistema_monitoramento.py:325-334: the worker, whose loop ended in laco,
\* sends the result, by a buffered or by a rendezvous send.
EqResponde(laco) ==
    /\ eq_wpc = "busy"
    /\ ~ laco.raised
    /\ eq_resq' = Append(eq_resq, Resultado(eq_wcur, 1, laco.alertas))
    /\ eq_w_det' = laco.historico_sensores
    /\ \E o \in ReplyOutcomes : eq_wpc' = IF o = "rendezvous" THEN "sending" ELSE "recv"
    /\ eq_wcur' = NoMsg
    /\ UNCHANGED <<mpiVars, partVars, smVars, detVars, valVars, aggVars, ioVars,
                   eq_ciclo, eq_dados, eq_loc_pc, eq_loc_det, eq_loc_alertas, eq_m_pc,
                   eq_alertas_total, eq_inbox>>

\* sistema_monitoramento.py:297-334
EqWorkerReply == EqResponde(EqLaco)

\* sistema_monitoramento.py:336-337: the worker, whose loop was left in laco
\* by an exception, ends.
EqFalha(laco) ==
    /\ eq_wpc = "busy"
    /\ laco.raised
    /\ eq_w_det' = laco.historico_sensores
    /\ eq_wpc' = "failed"
    /\ eq_wcur' = NoMsg
    /\ UNCHANGED <<mpiVars, partVars, smVars, detVars, valVars, aggVars, ioVars,
                   eq_ciclo, eq_dados, eq_loc_pc, eq_loc_det, eq_loc_alertas, eq_m_pc,
                   eq_alertas_total, eq_inbox, eq_resq>>

\* sistema_monitoramento.py:308 and 336-337: the worker ends without a result.
EqWorkerFail == EqFalha(EqLaco)

EqNext ==
    \/ \E d \in DadosEq : EqRead(d)
    \/ EqLocal
    \/ EqSend
    \/ EqRecvResult
    \/ EqLoopEnd
    \/ EqWorkerRecv
    \/ EqWorkerReply
    \/ EqWorkerFail

\* -------------------------------------------------------- specifications
Init == MpiInit /\ PartIdle /\ SMIdle /\ DetIdle /\ ValIdle /\ AggIdle /\ IOIdle /\ EqIdle

Next == MpiNext

\* MasterNode with its WorkerNodes.
Spec == Init /\ [][Next]_vars

\* The master is one sequential process and each worker another: each
\* keeps taking its next step while it has one.  The master's step at
\* "process" is Process, which is enabled exactly there; its weak fairness
\* is written out.
FairSpec ==
    /\ Spec
    /\ WF_vars(mpc # "process" /\ MasterStep)
    /\ ([]<>(mpc # "process") \/ []<><<Process>>_vars)
    /\ \A w \in 1 .. MaxWorkers : WF_vars(w \in Workers /\ WorkerStep(w))

InitPart == MpiStart(2, 1) /\ PartInit /\ SMIdle /\ DetIdle /\ ValIdle /\ AggIdle /\ IOIdle /\ EqIdle

\* The two partitioning functions on their own.
SpecPart == InitPart /\ [][PartNext]_vars

InitSM == MpiStart(2, 1) /\ PartIdle /\ SMInit /\ DetIdle /\ ValIdle /\ AggIdle /\ IOIdle /\ EqIdle

\* SistemaMonitoramento: processo_master with its processo_worker processes.
SpecSM == InitSM /\ [][SMNext]_vars

InitDet == MpiStart(2, 1) /\ PartIdle /\ SMIdle /\ DetInit /\ ValIdle /\ AggIdle /\ IOIdle /\ EqIdle

\* DetectorAnomalias inside the loop of processo_worker.
SpecDet == InitDet /\ [][DetNext]_vars

InitVal == MpiStart(2, 1) /\ PartIdle /\ SMIdle /\ DetIdle /\ ValInit /\ AggIdle /\ IOIdle /\ EqIdle

\* WorkerNode.process_batch applied to one batch.
SpecVal == InitVal /\ [][ValNext]_vars

InitAgg ==
    MpiStart(2, 1) /\ PartIdle /\ SMIdle /\ DetIdle /\ ValIdle /\ AggInit /\ IOIdle /\ EqIdle

\* MasterNode.process_results applied to the results of one cycle.
SpecAgg == InitAgg /\ [][AggNext]_vars

InitIO ==
    /\ \E bs \in 1 .. MaxBatch : MpiStart(2, bs)
    /\ PartIdle /\ SMIdle /\ DetIdle /\ ValIdle /\ AggIdle /\ IOIdle /\ EqIdle

\* MasterNode with one WorkerNode and its input and output files.
SpecIO == InitIO /\ [][IONext]_vars

InitEq ==
    MpiStart(2, 1) /\ PartIdle /\ SMIdle /\ DetIdle /\ ValIdle /\ AggIdle /\ IOIdle /\ EqInit

\* SistemaMonitoramento with one process, and with a master and one worker,
\* on the same readings.
SpecEq == InitEq /\ [][EqNext]_vars

\* ------------------------------------------------------------ properties
Count(s, P(_)) == Cardinality({i \in 1 .. Len(s) : P(s[i])})

BatchIds == 0 .. (Len(batches) - 1)

\* The cycle's report has been written and the master is in its polling wait.
Persisted == mpc = "sleep" /\ data # <<>>

\* C1: every cycle with a non-empty load, the first and every later one,
\* eventually reaches the persisted state, unless the master is
\* interrupted, the report cannot be written, or a worker fails to answer a
\* batch it received.
C1_EveryCycleIsPersisted ==
    (mpc = "init_send") ~> (Persisted \/ stop \in {"interrupt", "error"} \/ faults > 0)

\* C2: when the master has finished its run, every worker has been sent
\* exactly one termination sentinel.
C2_ExactlyOneTermination ==
    mpc = "done" => \A w \in Workers : termSent[w] = 1

\* A work message is put on its way to worker w in this step.
BatchSentTo(w) ==
    /\ Len(inbox'[w]) > Len(inbox[w])
    /\ inbox'[w][Len(inbox'[w])].kind = "work"

\* C3: once the termination sentinel has been sent to a worker, no batch is
\* ever sent to that worker again.
C3_NoBatchAfterTermination ==
    [][\A w \in Workers : termSent[w] > 0 => ~ BatchSentTo(w)]_vars

\* C4: in the collection phase of processar_dados_distribuido the master
\* waits for a result only from a worker that was sent a chunk in this cycle.
C4_WaitsOnlyOnOutstanding ==
    (sm_pc = "recv" /\ sm_rank <= sm_size - 1) => Len(chunks[sm_rank]) > 0

\* Worker w was given a batch, left its loop by an exception (it was never
\* sent the sentinel) and no result of it is on its way.
WorkerLost(w) ==
    /\ w \in active_workers
    /\ wpc[w] = "exited"
    /\ termSent[w] = 0
    /\ resq[w] = <<>>

\* C5: a cycle in which a worker holding a batch never answers still leaves
\* the collection loop.
C5_CycleCompletesWithoutAnswer ==
    (mpc = "collect" /\ \E w \in Workers : WorkerLost(w)) ~> (mpc \notin {"collect", "reply"})

\* C6: the batches of distribute_work and the chunks of
\* processar_dados_distribuido hold every input row exactly once, in input
\* order; a batch has between 1 and batch_size rows and there is one chunk
\* per worker.
C6_PartitionLossless ==
    part_pc \in {"batches", "chunks"} =>
        /\ Flatten(part_out) = part_data
        /\ part_pc = "batches" =>
             \A k \in 1 .. Len(part_out) : Len(part_out[k]) \in 1 .. part_bs
        /\ part_pc = "chunks" => Len(part_out) = part_n

\* Batches with a shorter last batch have been built.
C6_Witness ==
    /\ part_pc = "batches"
    /\ Len(part_out) >= 2
    /\ Len(part_out[Len(part_out)]) < part_bs

ValidIn(batch) == Count(batch, RecordOk)

\* C7: the report computed from the collected results has total_records
\* equal to the sum of the valid records of all batches of the cycle.
C7_TotalRecordsIsSumOfValid ==
    mpc = "save" =>
        /\ ~ final_results.empty
        /\ final_results.total_records = SumSeq(SeqMap(ValidIn, batches))

\* Results arrived out of batch order, and the cycle held valid and invalid rows.
C7_Witness ==
    /\ mpc = "save"
    /\ Len(results) >= 2
    /\ results[1].batch_id # 0
    /\ final_results.total_records > 0
    /\ final_results.total_records < Len(data)

\* Batches sent to worker w in this cycle whose result the master has not received.
InFlight(w) ==
    Cardinality({i \in 1 .. Len(sentlog) : sentlog[i][2] = w})
      - Cardinality({i \in 1 .. Len(results) : results[i].worker_rank = w})

\* C8: a worker never has more than one batch in flight.
C8_AtMostOneInFlight ==
    \A w \in Workers : InFlight(w) \in {0, 1}

\* A worker is on its second batch of the cycle while the other is busy too.
C8_Witness ==
    /\ mpc = "collect"
    /\ \E w \in Workers :
         /\ Cardinality({i \in 1 .. Len(sentlog) : sentlog[i][2] = w}) >= 2
         /\ InFlight(w) = 1
         /\ \E v \in Workers \ {w} : InFlight(v) = 1

IsWork(m, b) == m.kind = "work" /\ m.batch_id = b

\* The places that hold batch b: a message to a worker, a worker, a result
\* on its way back, a collected result.
Holders(b) ==
      SumSeq([w \in Workers |->
                Cardinality({i \in 1 .. Len(inbox[w]) : IsWork(inbox[w][i], b)})
                + (IF IsWork(wcur[w], b) THEN 1 ELSE 0)
                + Cardinality({i \in 1 .. Len(resq[w]) : resq[w][i].batch_id = b})])
    + Cardinality({i \in 1 .. Len(results) : results[i].batch_id = b})

SendsOf(b) == Cardinality({i \in 1 .. Len(sentlog) : sentlog[i][1] = b})

\* C9: within a cycle every batch handed out was sent exactly once, to one
\* worker, a batch not yet handed out was sent to none, and no batch is
\* held in two places.
C9_BatchSentOnceHeldOnce ==
    \A b \in BatchIds :
        /\ SendsOf(b) = (IF b < batch_idx THEN 1 ELSE 0)
        /\ Holders(b) <= 1
        /\ b >= batch_idx => Holders(b) = 0

\* Three batches: one collected, one with a worker or on its way, one not handed out.
C9_Witness ==
    /\ mpc = "collect"
    /\ Len(batches) >= 3
    /\ batch_idx = 2
    /\ \E b \in BatchIds : \E i \in 1 .. Len(results) : results[i].batch_id = b
    /\ \E b \in BatchIds : \E w \in Workers : IsWork(wcur[w], b)

\* C10: when distribute_work returns, the result list has exactly one result
\* per batch_id of the cycle and no result message is left unreceived.
C10_OneResultPerBatch ==
    mpc = "process" =>
        /\ Len(results) = Len(batches)
        /\ \A b \in BatchIds :
             Cardinality({i \in 1 .. Len(results) : results[i].batch_id = b}) = 1
        /\ \A w \in Workers : resq[w] = <<>>

\* distribute_work has returned from a cycle of several batches that two
\* workers shared.
C10_Witness ==
    /\ mpc = "process"
    /\ Len(batches) >= 2
    /\ \E i, j \in 1 .. Len(results) : results[i].worker_rank # results[j].worker_rank

\* C11: a reading of a sensor that has fewer than min_historico earlier
\* values is classified (False, HISTORICO_INSUFICIENTE); this covers the
\* sensor with exactly min_historico - 1 earlier values.
C11_ShortHistoryIsInsufficient ==
    (det_last.called /\ Len(det_last.antes) < min_historico)
        => det_last.classe = Classe(FALSE, "HISTORICO_INSUFICIENTE")

IsConstant(h) == \A i \in 1 .. Len(h) : h[i] = h[1]

\* C12: with at least min_historico earlier values, those of the window not
\* all equal, the reading is a critical leak or blockage when its z-score
\* against the window is above threshold_critico, else a high leak or
\* blockage when it is above threshold_desvio, else normal; it is a leak
\* when the reading is above the mean and a blockage otherwise.  The mean,
\* the standard deviation and the z-score are the float64 numbers np.mean,
\* np.std and their quotient give.  After the example history the reading
\* 108 is a critical leak.
C12_ClassificationRule ==
    (det_last.called /\ Len(det_last.antes) >= min_historico /\ ~ IsConstant(det_last.janela))
        => LET f == Medidas(det_last.janela, det_last.vazao)
               critico == FGt(f.z_score, FromTenths(threshold_critico))
               alto == FGt(f.z_score, FromTenths(threshold_desvio))
               acima == FGt(f.vazao_atual, f.media)
           IN  /\ (critico /\ acima) => det_last.classe = Classe(TRUE, "VAZAMENTO_CRITICO")
               /\ (critico /\ ~ acima) => det_last.classe = Classe(TRUE, "ENTUPIMENTO_CRITICO")
               /\ (~ critico /\ alto /\ acima) => det_last.classe = Classe(TRUE, "VAZAMENTO_ALTO")
               /\ (~ critico /\ alto /\ ~ acima) => det_last.classe = Classe(TRUE, "ENTUPIMENTO_ALTO")
               /\ (~ critico /\ ~ alto) => det_last.classe = Classe(FALSE, "NORMAL")
               /\ (det_last.antes = Exemplo /\ det_last.vazao = 1080)
                      => det_last.classe = Classe(TRUE, "VAZAMENTO_CRITICO")

C12_Witness ==
    /\ det_last.called
    /\ det_last.antes = Exemplo
    /\ det_last.vazao = 1080
    /\ det_last.classe.tipo = "VAZAMENTO_CRITICO"

\* C13: when the earlier values of the sensor, at least min_historico of
\* them, are all equal, the reading is classified (False, SENSOR_CONSTANTE)
\* whatever its value.
C13_ConstantHistoryIsConstantSensor ==
    (det_last.called /\ Len(det_last.antes) >= min_historico /\ IsConstant(det_last.antes))
        => det_last.classe = Classe(FALSE, "SENSOR_CONSTANTE")

\* The last Min(Len(s), n) values of s.
UltimosDe(s, n) == SubSeq(s, Len(s) - Min(Len(s), n) + 1, Len(s))

\* C14: the history of every sensor has at most max_historico values and is
\* the most recent values submitted for it, in the order of submission,
\* whatever the classifications were.
C14_HistoryIsRecentWindow ==
    \A i \in Detectores, s \in Sensores :
        /\ Len(historico_sensores[i][s]) <= max_historico
        /\ historico_sensores[i][s] = UltimosDe(det_sub[i][s], max_historico)

C14_Witness ==
    /\ det_last.called
    /\ det_last.classe.anomalia
    /\ Len(det_sub[det_last.detector][det_last.sensor_id]) > max_historico

\* The readings of sensor s classified by detector i, with their classes.
TraceDe(i, s) == SelectSeq(det_trace[i], LAMBDA e : e.sensor_id = s)

\* C15: two detectors that were given the same values for a sensor have
\* returned the same classifications for it and hold the same history of
\* it, whatever they were given for the other sensors.
C15_SensorsAreIndependent ==
    \A s \in Sensores :
        det_sub[1][s] = det_sub[2][s]
            => /\ TraceDe(1, s) = TraceDe(2, s)
               /\ historico_sensores[1][s] = historico_sensores[2][s]

C15_Witness ==
    /\ det_sub[1]["SENSOR_001"] = det_sub[2]["SENSOR_001"]
    /\ det_sub[1]["SENSOR_002"] # det_sub[2]["SENSOR_002"]
    /\ TraceDe(1, "SENSOR_001") # <<>>
    /\ TraceDe(1, "SENSOR_001")[1].classe.anomalia
    /\ TraceDe(2, "SENSOR_001") # <<>>

\* a >= c and a <= c for a float a and a finite number c.
Ge(a, c) == IF a.k = "fin" THEN a.v >= c ELSE a.k = "inf"
Le(a, c) == IF a.k = "fin" THEN a.v <= c ELSE a.k = "-inf"

\* The record has every required field, with numbers in the numeric ones,
\* and each value is in its range.
InRange(record) ==
    IF ~ (RequiredFields \subseteq DOMAIN record) THEN FALSE
    ELSE /\ Ge(record.flow_rate, 0)
         /\ Ge(record.pressure, 0)
         /\ Ge(record.temperature, TemperatureLow) /\ Le(record.temperature, TemperatureHigh)
         /\ Ge(record.ph_level, PhLow) /\ Le(record.ph_level, PhHigh)

Kept(rows) == SelectSeq(rows, InRange)

\* C16: process_batch keeps exactly the records that have every required
\* field with flow_rate >= 0, pressure >= 0, -50 <= temperature <= 100 and
\* 0 <= ph_level <= 14; the others are counted in records_invalid, are not
\* in processed_data and raise no alert.
C16_KeepsExactlyRecordsInRange ==
    val_pc = "done"
        => /\ val_out.records_processed = Len(Kept(val_in))
           /\ val_out.records_invalid = Len(val_in) - Len(Kept(val_in))
           /\ Len(val_out.processed_data) = Len(Kept(val_in))
           /\ \A j \in 1 .. Len(val_out.processed_data) :
                  val_out.processed_data[j].sensor_id = Kept(val_in)[j].sensor_id
           /\ \A j \in 1 .. Len(val_out.alerts) :
                  \E r \in 1 .. Len(Kept(val_in)) :
                      Kept(val_in)[r].sensor_id = val_out.alerts[j].sensor_id

\* C17: every record of processed_data has a non-empty sensor_id and finite
\* flow_rate, pressure, temperature, ph_level and turbidity.
C17_AcceptedRecordsAreFinite ==
    val_pc = "done"
        => \A j \in 1 .. Len(val_out.processed_data) :
               LET r == val_out.processed_data[j]
               IN  /\ r.sensor_id # ""
                   /\ \A f \in NumericFields \cup {"turbidity"} : r[f].k = "fin"

\* C18: a worker that leaves a chunk has sent one result for it and is
\* still in its receive loop (back in recv, or in the send of the result),
\* whatever the readings of the chunk were.
C18_BadReadingDoesNotAbortChunk ==
    [][\A w \in SMWorkers :
           (sm_wpc[w] = "busy" /\ sm_wpc'[w] # "busy")
               => /\ sm_wpc'[w] \in {"recv", "sending"}
                  /\ Len(sm_resq'[w]) = Len(sm_resq[w]) + 1]_vars

\* C19: when a worker's turn ends in an exception, an outcome for the batch
\* it held is put on its channel to the master.
C19_FailedBatchIsReported ==
    [][\A w \in Workers :
           (wpc[w] = "busy" /\ wpc'[w] = "exited")
               => /\ Len(resq'[w]) = Len(resq[w]) + 1
                  /\ resq'[w][Len(resq'[w])].batch_id = wcur[w].batch_id]_vars

TiposDeAlerta ==
    {"VAZAMENTO_CRITICO", "ENTUPIMENTO_CRITICO", "VAZAMENTO_ALTO", "ENTUPIMENTO_ALTO"}

RECURSIVE DevidosDe(_, _, _)
\* The alert due for the reading sensor_data, for which detectar_anomalia
\* gave r, and those due for the readings resto after it.
DevidosApos(r, sensor_data, resto, por) ==
    IF r.raised THEN <<>>
    ELSE (IF r.classe.tipo \in TiposDeAlerta
          THEN <<[sensor_id |-> sensor_data.sensor_id, tipo |-> r.classe.tipo,
                  vazao |-> sensor_data.vazao.v, processado_por |-> por]>>
          ELSE <<>>)
         \o DevidosDe(r.historico_sensores, resto, por)

\* The alerts due for the readings of a chunk that worker por, whose
\* detector has the histories hs, processes: one for each reading
\* detectar_anomalia classifies as a leak or a blockage, with the sensor
\* id, the kind and the value of the reading and the worker; none for the
\* other readings.
DevidosDe(hs, sensores, por) ==
    IF sensores = <<>> THEN <<>>
    ELSE DevidosApos(detectar_anomalia(hs, Head(sensores).sensor_id, Head(sensores).vazao),
                     Head(sensores), Tail(sensores), por)

\* The sensor id, the kind, the value and the producer of each alert.
Resumo(alertas) ==
    [j \in 1 .. Len(alertas) |->
        [sensor_id |-> alertas[j].sensor_id, tipo |-> alertas[j].tipo,
         vazao |-> alertas[j].vazao, processado_por |-> alertas[j].processado_por]]

\* C20: when the worker is done with a chunk, the alerts it emits, those
\* of the result it sends to the master, are, in order, one for each
\* reading of the chunk that detectar_anomalia classified as a leak or a
\* blockage and none for the readings classified as normal, insufficient
\* history or constant sensor; each carries the sensor id, the kind and
\* the value of its reading and the worker that produced it.
C20_OneAlertPerAnomalousReading ==
    [][(eq_wpc = "busy" /\ eq_wpc' # "busy")
           => (IF Len(eq_resq') > Len(eq_resq)
               THEN Resumo(eq_resq'[Len(eq_resq')].alertas)
               ELSE <<>>) = DevidosDe(eq_w_det, eq_wcur.dados, 1)]_vars

\* How often x occurs in the sequence s.
Ocorrencias(s, x) == Cardinality({i \in 1 .. Len(s) : s[i] = x})

\* The sequences s and t hold the same elements the same number of times.
MesmoMultiset(s, t) ==
    /\ Len(s) = Len(t)
    /\ \A i \in 1 .. Len(s) : Ocorrencias(s, s[i]) = Ocorrencias(t, s[i])

\* The two reports agree on the counts and on the multiset of alerts.
MesmasContagens ==
    /\ agg_out.empty = agg_out_perm.empty
    /\ ~ agg_out.empty =>
           /\ agg_out.total_records = agg_out_perm.total_records
           /\ agg_out.total_alerts = agg_out_perm.total_alerts
           /\ MesmoMultiset(agg_out.alerts, agg_out_perm.alerts)
           /\ DOMAIN agg_out.statistics = DOMAIN agg_out_perm.statistics

\* C21: the report of the results of a cycle is the same whatever the order
\* of the result list: the same total_records, total_alerts and multiset of
\* alerts, and for each parameter the same mean, min and max.
C21_OrderIndependent ==
    agg_pc = "done" =>
        /\ MesmasContagens
        /\ ~ agg_out.empty =>
               \A f \in DOMAIN agg_out.statistics :
                   /\ agg_out.statistics[f].mean = agg_out_perm.statistics[f].mean
                   /\ agg_out.statistics[f].min = agg_out_perm.statistics[f].min
                   /\ agg_out.statistics[f].max = agg_out_perm.statistics[f].max

\* The values of parameter f in the rows the statistics are taken over
\* that are numbers, in tenths.
ValoresDoParametro(rs, f) ==
    SelectSeq(SeqMap(LAMBDA r : r[f], Flatten(SeqMap(ProcessedData, rs))),
              LAMBDA c : c.k = "fin")

\* |a - b| of two float64, not rounded.
Distancia(a, b) ==
    LET x == IF a.x < b.x THEN a.x ELSE b.x
        ma == BShl(a.m, a.x - x)
        mb == BShl(b.m, b.x - x)
    IN  Float(FALSE,
              IF a.neg # b.neg THEN BAdd(ma, mb)
              ELSE IF BCmp(ma, mb) >= 0 THEN BSub(ma, mb) ELSE BSub(mb, ma),
              x)

\* The means a and b of the values vs, taken in two orders, differ by at
\* most 2^-51 times the sum of the absolute values, which is n 2^-51
\* times the mean absolute value of the n values: 10 |a - b| <= 2^-51 t for
\* the sum t of the absolute values in tenths.
MeanClose(a, b, vs) ==
    IF a.k = "fin" /\ b.k = "fin"
    THEN ~ FGt(Float(FALSE, BMul(Distancia(a.f, b.f).m, BNat(10)), Distancia(a.f, b.f).x),
               Float(FALSE, BNat(SumSeq(SeqMap(LAMBDA c : Abs(c.v), vs))), -51))
    ELSE a = b

\* C21 (amended): the report of the results of a cycle has the same
\* total_records, total_alerts, multiset of alerts and per-parameter min and
\* max whatever the order of the result list; the per-parameter means agree
\* up to floating-point rounding.
C21_OrderIndependentUpToRounding ==
    agg_pc = "done" =>
        /\ MesmasContagens
        /\ ~ agg_out.empty =>
               \A f \in DOMAIN agg_out.statistics :
                   /\ MeanClose(agg_out.statistics[f].mean, agg_out_perm.statistics[f].mean,
                                ValoresDoParametro(agg_in, f))
                   /\ agg_out.statistics[f].min = agg_out_perm.statistics[f].min
                   /\ agg_out.statistics[f].max = agg_out_perm.statistics[f].max

\* Three results that arrived in another order, with alerts, whose flow
\* rate means differ in the last bits and whose temperatures, -50.0, 50.0
\* and 0.1, cancel: the two temperature means are 0.03333333333333333 and
\* 0.033333333333333805.
C21_Witness ==
    /\ agg_pc = "done"
    /\ Len(agg_in) >= 3
    /\ agg_perm # agg_in
    /\ agg_out.total_alerts >= 1
    /\ agg_out.statistics.flow_rate.mean # agg_out_perm.statistics.flow_rate.mean
    /\ agg_out.statistics.temperature.mean # agg_out_perm.statistics.temperature.mean
    /\ agg_out.statistics.temperature.min = Fin(-500)
    /\ agg_out.statistics.temperature.max = Fin(500)
    /\ agg_out.statistics.pressure.min # agg_out.statistics.pressure.max

\* C22: a step that leaves the saving of the report without a report
\* written takes the master to the polling wait of the next cycle; only an
\* interrupt ends the loop there.
C22_FailedSaveGoesOnToNextCycle ==
    [][(mpc = "save" /\ mpc' # "save" /\ saved' = saved)
           => (mpc' = "sleep" \/ stop' = "interrupt")]_vars

\* The load of this cycle found the file absent or unreadable.
LoadFailed(src) == src.k \in {"missing", "unreadable"}

\* C23: a load that finds the reading source absent or unreadable starts a
\* cycle that goes straight to the polling wait, with no message sent and
\* no report written; from that wait the master goes on to the next load
\* (unless it is interrupted), again without sending or writing anything.
C23_FailedLoadSkipsCycle ==
    [][/\ (mpc = "load" /\ cycle' = cycle + 1 /\ LoadFailed(io_src'))
           => /\ mpc' = "sleep"
              /\ inbox' = inbox
              /\ saved' = saved
       /\ (mpc = "sleep" /\ LoadFailed(io_src))
           => /\ mpc' \in {"sleep", "load"} \/ stop' = "interrupt"
              /\ \A w \in Workers : ~ BatchSentTo(w)
              /\ saved' = saved]_vars

\* The master is back at the top of its loop after a cycle whose load found
\* the file unreadable, and a cycle before it was processed and saved.
C23_Witness ==
    /\ mpc = "load"
    /\ cycle = 2
    /\ io_src = Unreadable
    /\ saved = 1
    /\ stop = "none"

\* C24: when shutdown() has returned, every worker has taken its
\* termination message and left its loop, which is the least an
\* acknowledgment received by the master would show.
C24_ShutdownWaitsForWorkers ==
    mpc = "done" => \A w \in Workers : wpc[w] = "exited" /\ inbox[w] = <<>>

\* C25: a worker takes one message at a time from its channel.  On the
\* sentinel, and on it only, it leaves its loop; a chunk it takes in hand
\* and answers with exactly one result, for that chunk, before it takes the
\* next message, so that results go out in the order the chunks came in;
\* it sends nothing at any other moment, and nothing once it has left.
C25_WorkerAnswersInOrder ==
    [][\A w \in SMWorkers :
           /\ (sm_wpc[w] = "recv" /\ sm_wpc'[w] # "recv")
                  => /\ sm_inbox'[w] = Tail(sm_inbox[w])
                     /\ sm_resq'[w] = sm_resq[w]
                     /\ IF Head(sm_inbox[w]).kind = "term"
                        THEN sm_wpc'[w] = "exited"
                        ELSE sm_wpc'[w] = "busy" /\ sm_wcur'[w] = Head(sm_inbox[w])
           /\ sm_wpc[w] = "busy"
                  => /\ Len(sm_inbox'[w]) >= Len(sm_inbox[w])
                     /\ sm_wpc'[w] # "busy"
                            => /\ sm_wpc'[w] \in {"recv", "sending"}
                               /\ Len(sm_resq'[w]) = Len(sm_resq[w]) + 1
                               /\ sm_resq'[w][Len(sm_resq'[w])].ciclo = sm_wcur[w].ciclo
                               /\ sm_resq'[w][Len(sm_resq'[w])].worker_id = w
           /\ sm_wpc[w] # "busy" => Len(sm_resq'[w]) <= Len(sm_resq[w])
           /\ sm_wpc[w] = "exited" => sm_wpc'[w] = "exited"]_vars

RECURSIVE ValoresDe(_, _, _)
\* The flow values of sensor s among the first n readings of dados.
ValoresDe(dados, s, n) ==
    IF n = 0 THEN <<>>
    ELSE IF dados[n].sensor_id = s
         THEN Append(ValoresDe(dados, s, n - 1), dados[n].vazao.v)
         ELSE ValoresDe(dados, s, n - 1)

\* The first n readings of dados all have a numeric flow value.
Numericas(dados, n) == \A i \in 1 .. n : ~ FloatRaises(dados[i].vazao)

\* C26: a step that changes the sensor histories of a process is a step of
\* a worker that holds a chunk; it changes the histories of that worker
\* only, not those of another worker or of the master, and the new
\* histories are the old ones with readings of that chunk appended, sensor
\* by sensor in the order of the chunk.
C26_DetectorIsPrivateToItsWorker ==
    [][\A p \in DOMAIN sm_det :
           sm_det'[p] # sm_det[p]
               => /\ p \in SMWorkers
                  /\ sm_wpc[p] = "busy"
                  /\ sm_wpc'[p] # "busy"
                  /\ \A q \in DOMAIN sm_det \ {p} :
                         /\ sm_det'[q] = sm_det[q]
                         /\ q \in SMWorkers => sm_wpc'[q] = sm_wpc[q]
                  /\ \E n \in 0 .. Len(sm_wcur[p].dados) :
                         /\ Numericas(sm_wcur[p].dados, n)
                         /\ \A s \in Sensores :
                                sm_det'[p][s] =
                                    UltimosDe(sm_det[p][s] \o ValoresDe(sm_wcur[p].dados, s, n),
                                              max_historico)]_vars

\* Two workers have processed chunks and hold different histories; the
\* master's detector has none.
C26_Witness ==
    /\ sm_size >= 3
    /\ sm_det[1] # SemHistorico
    /\ sm_det[2] # SemHistorico
    /\ sm_det[1] # sm_det[2]
    /\ sm_det[0] = SemHistorico

\* The alerts without the label of the process that produced them.
SemRotulo(alertas) ==
    [i \in 1 .. Len(alertas) |->
        [sensor_id |-> alertas[i].sensor_id, tipo |-> alertas[i].tipo, vazao |-> alertas[i].vazao,
         localizacao |-> alertas[i].localizacao]]

\* The worker of the system of size 2 has dealt with the chunk of this cycle.
EqWorkerDone == eq_m_pc = "recv" /\ eq_inbox = <<>> /\ eq_wpc # "busy"

\* C27: on the same readings, cycle by cycle, the system of one process
\* and the system of a master with one worker produce the same alerts up
\* to the label of the producer and keep the same sensor histories; a
\* cycle in which a reading raises produces an alert list in neither, and
\* the histories agree there too.
C27_LocalEqualsSingleWorker ==
    /\ (eq_loc_pc \in {"read", "done"} /\ eq_m_pc \in {"read", "done"})
           => /\ SemRotulo(eq_loc_alertas) = SemRotulo(eq_alertas_total)
              /\ eq_loc_det = eq_w_det
    /\ (eq_loc_pc # "process" /\ EqWorkerDone)
           => /\ eq_loc_det = eq_w_det
              /\ eq_loc_pc = "error" <=> eq_wpc = "failed"
              /\ eq_loc_pc = "read" <=> eq_resq # <<>>
              /\ eq_resq # <<>> => SemRotulo(Head(eq_resq).alertas) = SemRotulo(eq_loc_alertas)

\* Both systems have completed a second cycle that raised alerts, on
\* histories that earlier cycles filled.
C27_Witness ==
    /\ eq_ciclo = 2
    /\ eq_loc_pc = "read"
    /\ eq_m_pc = "read"
    /\ eq_alertas_total # <<>>
    /\ Len(eq_dados) = 2
    /\ Len(eq_w_det["SENSOR_002"]) >= 2

\* C28: once the master has entered shutdown(), every worker eventually
\* leaves its receive loop and terminates, a worker that got no batch in
\* the last cycle included.
C28_ShutdownEndsEveryWorker ==
    (mpc = "shutdown") ~> (\A w \in Workers : wpc[w] = "exited")

\* C29: in the result of process_batch the processed and the invalid
\* records add up to the records of the batch, alerts_count is the length
\* of alerts and processed_data has records_processed entries, whatever the
\* batch holds: nothing, valid rows, invalid rows or both.
C29_BatchResultCountsAgree ==
    val_pc = "done"
        => /\ val_out.records_processed + val_out.records_invalid = Len(val_in)
           /\ val_out.records_processed >= 0
           /\ val_out.records_invalid >= 0
           /\ val_out.alerts_count = Len(val_out.alerts)
           /\ Len(val_out.processed_data) = val_out.records_processed

\* The result of a batch of several rows that were all turned down.
C29_Witness ==
    /\ val_pc = "done"
    /\ Len(val_in) >= 2
    /\ val_out.records_processed = 0
    /\ val_out.records_invalid = Len(val_in)
    /\ val_out.alerts = <<>>

\* The counts of a report agree with its lists.
Coerente(report) ==
    /\ report.total_alerts = Len(report.alerts)
    /\ report.total_records = report.data_count

\* C30: in every report process_results makes from the results of the
\* workers, total_alerts is the length of the alerts list and
\* total_records is the number of validated readings, the rows of the
\* frame the statistics are taken from; so it is when no reading of the
\* cycle was valid, and in whatever order the results arrived.
C30_ReportCountsAgree ==
    agg_pc = "done"
        => /\ ~ agg_out.empty => Coerente(agg_out)
           /\ ~ agg_out_perm.empty => Coerente(agg_out_perm)
           /\ agg_out.empty <=> agg_in = <<>>

\* The report of a cycle of several batches in which no reading was valid.
C30_Witness ==
    /\ agg_pc = "done"
    /\ Len(agg_in) >= 2
    /\ ~ agg_out.empty
    /\ agg_out.total_records = 0
    /\ agg_out.alerts = <<>>
    /\ \A i \in 1 .. Len(agg_in) : agg_in[i].records_invalid > 0

====
